---------------------------- MODULE Spec2Model ----------------------------
(***************************************************************************)
(* Verification model of keycard-tech/shelljs: the device communication    *)
(* protocol stack (exchange channel, chunked command encoder, link framer, *)
(* structured-data transmitter).                                           *)
(*                                                                         *)
(* The module holds several specifications over one set of variables; each *)
(* specification moves only the variables of its component and leaves the  *)
(* others at their initial values.                                         *)
(*   Spec        exchange channel: Transport.send / exchangeAtomicImpl     *)
(*   SpecChunks  chunked command encoder: the chunking loops of Commands   *)
(*               and of the legacy EIP-712 signing                         *)
(*   SpecFailures  the same loops and the structured-data traversal, an    *)
(*               exchange may fail                                         *)
(*   SpecSequence  the same loops and traversal, one action per stretch    *)
(*               between two awaits                                        *)
(*   SpecFraming link framer: hidFraming.makeBlocks / reduceResponse /     *)
(*               getReducedResult                                          *)
(*   SpecReassembly  link framer: reduceResponse on packets whose channel, *)
(*               tag or index may differ from what makeBlocks wrote        *)
(*   SpecField   structured data: the field exchanges of sendStructImplem  *)
(*   SpecStruct  structured data: the traversal recursiveFieldStructImplem *)
(*   SpecPartial the traversal of a message that lacks a declared key      *)
(*   SpecUnresolved  the traversal of a message with an undeclared type    *)
(*   SpecSend    one call of Transport.send                                *)
(*   SpecRecovery  the derivation of v at the end of signEthTransaction    *)
(*   SpecBulk    one call of Transport.exchangeBulk                        *)
(***************************************************************************)
EXTENDS Integers, Sequences, FiniteSets, TLC

VARIABLES
    \* ---- exchange channel (src/src/transport.ts) ----
    exchangeBusyPromise,   \* 0 = null, else the operation whose guarded call set it
    opPc,                  \* position of each logical operation
    opChunks,              \* number of exchanges the operation has to issue
    opSent,                \* exchanges of the operation answered and accepted
    rawStarted,            \* raw exchanges the operation has put on the link
    timerArmed,            \* the setTimeout of the operation's guarded call is pending
    unresponsiveReached,   \* local flag of the operation's guarded call
    outcome,               \* how the operation's last guarded call settled
    emitted,               \* events emitted during the operation's current guarded call
    \* ---- chunked command encoder (src/src/index.ts, src/src/eip712.ts) ----
    chKind,                \* which chunked operation runs
    chLen,                 \* length of its payload (rawTx / message / data)
    chPaths,               \* paths.length
    chVrs,                 \* vrsOffset of decodeTxInfo (signEthTransaction only)
    chOffset,              \* the loop variable offset
    chSent,                \* the exchanges performed so far: [p1, buf]
    chPc,                  \* "loop", "done", "tooBig" (send threw), "typeError", "failed"
    chFailed,              \* the exchanges that failed: [at, buf, error]
    chError,               \* the error the operation threw
    chEmitted,             \* the arguments of the "chunk-loaded" events emitted
    chPending,             \* the exchanges started and not yet answered
    \* ---- link framer (src/unnamed/part_002) ----
    frChannel,             \* channel of hidFraming(channel, packetSize)
    frPacketSize,          \* packetSize of hidFraming(channel, packetSize)
    frApduLen,             \* length of the framed payload
    frBlocks,              \* the packets makeBlocks returned
    frFed,                 \* number of packets reduceResponse has accepted so far
    frLast,                \* the packet last given to reduceResponse
    frAcc,                 \* the ResponseAcc (NullAcc: none yet)
    frResult,              \* what getReducedResult returned
    frPc,                  \* "idle", "reduce", "result", or the id of the error thrown
    \* ---- structured data (src/unnamed/part_001) ----
    sdMessage,             \* the value given to recursiveFieldStructImplem
    sdFilters,             \* filters.fields
    sdPlan,                \* the exchanges of the call that are still to be sent
    sdSent,                \* the exchanges performed so far
    sdPc,                  \* "idle", "send", "done", "failed"
    sdRoot,                \* the type name the traversal starts from
    sdFailed,              \* the exchanges that failed: [at, exchange, error]
    sdError,               \* the error the call threw
    sdPending,             \* the exchanges started and not yet answered
    \* ---- Transport.send (src/src/transport.ts) ----
    snArgs,                \* the arguments of the call: cla, ins, p1, p2, len, statusList
    snRaw,                 \* the APDUs given to this.exchange
    snResponse,            \* what this.exchange resolved with
    snResult,              \* what send returned
    snError,               \* what send threw
    snPc,                  \* "idle", "call", "exchange", "returned", "failed"
    \* ---- signEthTransaction after its loop (src/src/index.ts) ----
    rvTx,                  \* decodeTxInfo(rawTx): txType, chainId, chainIdTruncated
    rvResponseByte,        \* response[0] of the last exchange
    rvParity,              \* the local ecc_parity (-1: not computed)
    rvV,                   \* the v returned, a string of hex digits
    rvPc,                  \* "idle", "await", "done"
    \* ---- Transport.exchangeBulk (src/src/transport.ts) ----
    bkN,                   \* apdus.length; apdu i is identified by i
    bkRaw,                 \* the apdus given to this.exchange, in order
    bkResponses,           \* what the exchanges resolved with, in order
    bkUnsubscribed,        \* the local flag unsubscribed
    bkEvents,              \* the observer callbacks invoked, in order
    bkMain,                \* how the promise of main() settled
    bkPc,                  \* "idle", "call", "exchange", "settled", "ended"
    \* ---- logs (src/src/logs.ts) ----
    subscribers,           \* the module-level array of callbacks
    lgId,                  \* the module-level counter id
    lgI,                   \* the index i of the loop of dispatch
    lgAtCall,              \* the callbacks registered when log() was called
    lgUnsubscribed,        \* the callbacks unsubscribed during the dispatch
    lgReceived,            \* how many times each callback was called with the log
    lgThrew,               \* the callbacks that threw during the dispatch
    lgPc                   \* "idle", "dispatch"

chanVars == <<exchangeBusyPromise, opPc, opChunks, opSent, rawStarted,
              timerArmed, unresponsiveReached, outcome, emitted>>

chunkVars == <<chKind, chLen, chPaths, chVrs, chOffset, chSent, chPc, chFailed, chError,
               chEmitted, chPending>>

frameVars == <<frChannel, frPacketSize, frApduLen, frBlocks, frFed, frLast, frAcc,
               frResult, frPc>>

structVars == <<sdMessage, sdFilters, sdPlan, sdSent, sdPc, sdRoot, sdFailed, sdError,
                sdPending>>

sendVars == <<snArgs, snRaw, snResponse, snResult, snError, snPc>>

recoveryVars == <<rvTx, rvResponseByte, rvParity, rvV, rvPc>>

bulkVars == <<bkN, bkRaw, bkResponses, bkUnsubscribed, bkEvents, bkMain, bkPc>>

logVars == <<subscribers, lgId, lgI, lgAtCall, lgUnsubscribed, lgReceived, lgThrew, lgPc>>

vars == <<chanVars, chunkVars, frameVars, structVars, sendVars, recoveryVars,
         bulkVars, logVars>>

\* What the actions of one component leave alone: the other components.
notChan == <<chunkVars, frameVars, structVars, sendVars, recoveryVars,
  bulkVars, logVars>>
notChunk == <<chanVars, frameVars, structVars, sendVars, recoveryVars,
  bulkVars, logVars>>
notFrame == <<chanVars, chunkVars, structVars, sendVars, recoveryVars,
  bulkVars, logVars>>
notStruct == <<chanVars, chunkVars, frameVars, sendVars, recoveryVars,
  bulkVars, logVars>>
notSend == <<chanVars, chunkVars, frameVars, structVars, recoveryVars,
  bulkVars, logVars>>
notRecovery == <<chanVars, chunkVars, frameVars, structVars, sendVars,
  bulkVars, logVars>>
notBulk == <<chanVars, chunkVars, frameVars, structVars, sendVars, recoveryVars,
  logVars>>
notLog == <<chanVars, chunkVars, frameVars, structVars, sendVars, recoveryVars,
  bulkVars>>

-----------------------------------------------------------------------------
(***************************************************************************)
(* Exchange channel.                                                       *)
(*                                                                         *)
(* A logical operation (a Commands method) issues opChunks exchanges, one  *)
(* Transport.send after the other.  send hands the APDU to                 *)
(* Transport.exchange, which a transport implements as                     *)
(* exchangeAtomicImpl(rawExchange): every raw exchange is one guarded      *)
(* call.  JavaScript runs each synchronous stretch of code to completion,  *)
(* so every action below is one such stretch between two awaits.           *)
(***************************************************************************)

\* Bounds of the exchange-channel model.
NumOps == 2
MaxChunks == 2

Ops == 1..NumOps

\* transport.ts:395  StatusCodes.OK
StatusOK == 36864

InFlight == {o \in Ops : opPc[o] = "inflight"}

ChanInit ==
    /\ exchangeBusyPromise = 0
    /\ opPc = [o \in Ops |-> "idle"]
    /\ opChunks = [o \in Ops |-> 0]
    /\ opSent = [o \in Ops |-> 0]
    /\ rawStarted = [o \in Ops |-> 0]
    /\ timerArmed = [o \in Ops |-> FALSE]
    /\ unresponsiveReached = [o \in Ops |-> FALSE]
    /\ outcome = [o \in Ops |-> "none"]
    /\ emitted = [o \in Ops |-> <<>>]

\* A caller starts a logical operation of n exchanges (the chunking loops of
\* Commands: one iteration per exchange).
StartOperation(o, n) ==
    /\ opPc[o] = "idle"
    /\ opPc' = [opPc EXCEPT ![o] = "ready"]
    /\ opChunks' = [opChunks EXCEPT ![o] = n]
    /\ UNCHANGED <<exchangeBusyPromise, opSent, rawStarted, timerArmed,
                   unresponsiveReached, outcome, emitted, notChan>>

\* Mutant of ExchangeAtomicCall: the busy check is missing, every call is admitted.
ExchangeAtomicCall_NoGuard(o) ==
    /\ opPc[o] = "ready"
    /\ exchangeBusyPromise' = o
    /\ timerArmed' = [timerArmed EXCEPT ![o] = TRUE]
    /\ unresponsiveReached' = [unresponsiveReached EXCEPT ![o] = FALSE]
    /\ emitted' = [emitted EXCEPT ![o] = <<>>]
    /\ rawStarted' = [rawStarted EXCEPT ![o] = @ + 1]
    /\ opPc' = [opPc EXCEPT ![o] = "inflight"]
    /\ outcome' = [outcome EXCEPT ![o] = "none"]
    /\ UNCHANGED <<opChunks, opSent, notChan>>

\* Mutant of ExchangeAtomicCall: the rejected call releases the channel.
ExchangeAtomicCall_RaceClears(o) ==
    /\ opPc[o] = "ready"
    /\ IF exchangeBusyPromise # 0
       THEN /\ opPc' = [opPc EXCEPT ![o] = "settled"]
            /\ outcome' = [outcome EXCEPT ![o] = "race"]
            /\ exchangeBusyPromise' = 0
            /\ UNCHANGED <<timerArmed, unresponsiveReached, emitted, rawStarted>>
       ELSE /\ exchangeBusyPromise' = o
            /\ timerArmed' = [timerArmed EXCEPT ![o] = TRUE]
            /\ unresponsiveReached' = [unresponsiveReached EXCEPT ![o] = FALSE]
            /\ emitted' = [emitted EXCEPT ![o] = <<>>]
            /\ rawStarted' = [rawStarted EXCEPT ![o] = @ + 1]
            /\ opPc' = [opPc EXCEPT ![o] = "inflight"]
            /\ outcome' = [outcome EXCEPT ![o] = "none"]
    /\ UNCHANGED <<opChunks, opSent, notChan>>

\* exchangeAtomicImpl up to its first await (transport.ts:244-264): the busy
\* check, then the flag, the timer and the start of f.
ExchangeAtomicCall(o) ==
    /\ opPc[o] = "ready"
    /\ IF exchangeBusyPromise # 0
       THEN \* throw new TransportRaceCondition(...)
            /\ opPc' = [opPc EXCEPT ![o] = "settled"]
            /\ outcome' = [outcome EXCEPT ![o] = "race"]
            /\ UNCHANGED <<exchangeBusyPromise, timerArmed, unresponsiveReached,
                           emitted, rawStarted>>
       ELSE /\ exchangeBusyPromise' = o
            /\ timerArmed' = [timerArmed EXCEPT ![o] = TRUE]
            /\ unresponsiveReached' = [unresponsiveReached EXCEPT ![o] = FALSE]
            /\ emitted' = [emitted EXCEPT ![o] = <<>>]
            /\ rawStarted' = [rawStarted EXCEPT ![o] = @ + 1]
            /\ opPc' = [opPc EXCEPT ![o] = "inflight"]
            /\ outcome' = [outcome EXCEPT ![o] = "none"]
    /\ UNCHANGED <<opChunks, opSent, notChan>>

\* Mutant of UnresponsiveTimeout: the timer also gives the channel up.
UnresponsiveTimeout_ReleasesChannel(o) ==
    /\ timerArmed[o]
    /\ timerArmed' = [timerArmed EXCEPT ![o] = FALSE]
    /\ unresponsiveReached' = [unresponsiveReached EXCEPT ![o] = TRUE]
    /\ emitted' = [emitted EXCEPT ![o] = Append(@, "unresponsive")]
    /\ exchangeBusyPromise' = 0
    /\ UNCHANGED <<opPc, opChunks, opSent, rawStarted, outcome, notChan>>

\* The callback given to setTimeout (transport.ts:258-261).
UnresponsiveTimeout(o) ==
    /\ timerArmed[o]
    /\ timerArmed' = [timerArmed EXCEPT ![o] = FALSE]
    /\ unresponsiveReached' = [unresponsiveReached EXCEPT ![o] = TRUE]
    /\ emitted' = [emitted EXCEPT ![o] = Append(@, "unresponsive")]
    /\ UNCHANGED <<exchangeBusyPromise, opPc, opChunks, opSent, rawStarted, outcome, notChan>>

\* Mutant of ExchangeAtomicSettle: no finally block, the clean-up runs only
\* when f returned.
ExchangeAtomicSettle_NoFinally(o, res) ==
    /\ opPc[o] = "inflight"
    /\ IF res = "throw"
       THEN UNCHANGED <<emitted, timerArmed, exchangeBusyPromise>>
       ELSE /\ emitted' = [emitted EXCEPT ![o] =
                   IF unresponsiveReached[o] THEN Append(@, "responsive") ELSE @]
            /\ timerArmed' = [timerArmed EXCEPT ![o] = FALSE]
            /\ exchangeBusyPromise' = 0
    /\ opPc' = [opPc EXCEPT ![o] = "settled"]
    /\ outcome' = [outcome EXCEPT ![o] = res]
    /\ UNCHANGED <<opChunks, opSent, rawStarted, unresponsiveReached, notChan>>

\* Mutant of ExchangeAtomicSettle: the finally block leaves the timer running.
ExchangeAtomicSettle_TimerLeft(o, res) ==
    /\ opPc[o] = "inflight"
    /\ emitted' = [emitted EXCEPT ![o] =
           IF res # "throw" /\ unresponsiveReached[o]
           THEN Append(@, "responsive") ELSE @]
    /\ exchangeBusyPromise' = 0
    /\ opPc' = [opPc EXCEPT ![o] = "settled"]
    /\ outcome' = [outcome EXCEPT ![o] = res]
    /\ UNCHANGED <<opChunks, opSent, rawStarted, unresponsiveReached, timerArmed, notChan>>

\* exchangeAtomicImpl from the resumption of `await f()` to its end
\* (transport.ts:264-275).  res is how f ended: "ok" (a response with status
\* 0x9000), "status" (a response with another status word) or "throw".
ExchangeAtomicSettle(o, res) ==
    /\ opPc[o] = "inflight"
    /\ emitted' = [emitted EXCEPT ![o] =
           IF res # "throw" /\ unresponsiveReached[o]
           THEN Append(@, "responsive") ELSE @]
    \* finally
    /\ timerArmed' = [timerArmed EXCEPT ![o] = FALSE]
    /\ exchangeBusyPromise' = 0
    /\ opPc' = [opPc EXCEPT ![o] = "settled"]
    /\ outcome' = [outcome EXCEPT ![o] = res]
    /\ UNCHANGED <<opChunks, opSent, rawStarted, unresponsiveReached, notChan>>

\* Transport.send after `await this.exchange(...)` (transport.ts:196-203) and
\* the loop of the calling operation: a response whose status word is accepted
\* moves the operation to its next exchange, anything else makes it fail.
SendResume(o) ==
    /\ opPc[o] = "settled"
    /\ IF outcome[o] = "ok"
       THEN /\ opSent' = [opSent EXCEPT ![o] = @ + 1]
            /\ opPc' = [opPc EXCEPT ![o] =
                   IF opSent[o] + 1 = opChunks[o] THEN "done" ELSE "ready"]
       ELSE /\ opPc' = [opPc EXCEPT ![o] = "failed"]
            /\ UNCHANGED opSent
    /\ UNCHANGED <<exchangeBusyPromise, opChunks, rawStarted, timerArmed,
                   unresponsiveReached, outcome, emitted, notChan>>

ChanNext ==
    \/ \E o \in Ops, n \in 1..MaxChunks : StartOperation(o, n)
    \/ \E o \in Ops : ExchangeAtomicCall(o)
    \/ \E o \in Ops : UnresponsiveTimeout(o)
    \/ \E o \in Ops, res \in {"ok", "status", "throw"} : ExchangeAtomicSettle(o, res)
    \/ \E o \in Ops : SendResume(o)

-----------------------------------------------------------------------------
(***************************************************************************)
(* Status words and errors.  A thrown error is a record with its name and  *)
(* the fields its constructor sets.                                        *)
(***************************************************************************)

\* transport.ts:389  StatusCodes.LOCKED_DEVICE
LockedDevice == 21781
\* transport.ts:380, 370  StatusCodes.INCORRECT_DATA, CONDITIONS_OF_USE_NOT_SATISFIED
IncorrectData == 27264
ConditionsNotSatisfied == 27013

\* The status words a response ends with.
StatusWords == {StatusOK, LockedDevice, IncorrectData, ConditionsNotSatisfied}

NoError == [name |-> "none"]

\* new TransportStatusError(statusCode) (transport.ts:436-453): the error the
\* expression throws; the constructor throws LockedDeviceError itself for
\* LOCKED_DEVICE.
TransportStatusError(statusCode) ==
    IF statusCode = LockedDevice
    THEN [name |-> "LockedDeviceError"]
    ELSE [name |-> "TransportStatusError", statusCode |-> statusCode]

-----------------------------------------------------------------------------
(***************************************************************************)
(* Chunked command encoder.                                                *)
(*                                                                         *)
(* One action per loop iteration (the iteration's send included), one for  *)
(* the code after the loop.  In SpecChunks every exchange is answered with *)
(* an accepted status; in SpecFailures an exchange may fail.               *)
(***************************************************************************)

\* Bounds of the chunking model: the longest payload of the 150-byte
\* operations, of the 255/240-byte operations, and the longest path.
MaxTxLen == 400
MaxMsgLen == 510
MaxPathLen == 2

\* index.ts:501 / eip712.ts:29
TxBudget == 150
\* index.ts:594, index.ts:705
MsgBudget == 255
\* index.ts:734
LoadBudget == 240
\* transport.ts:189
MaxDataLength == 256
\* index.ts:521 (first ? 0x00 : 0x80)
P1First == 0
P1More == 128

\* The chunked operations: Commands.signEthTransaction, Commands.sendChunks
\* (signEthPersonalMessage, signBtcMessage), Commands.signPSBT, Commands.load,
\* the legacy signEIP712Message of eip712.ts and Eth.signPersonalMessage.
ChunkKinds == {"signEthTransaction", "sendChunks", "signPSBT", "load", "signEIP712Message",
               "signPersonalMessage"}
HasPath(kind) == kind \in {"signEthTransaction", "sendChunks", "signEIP712Message",
                           "signPersonalMessage"}
HasLength(kind) == kind \in {"sendChunks", "signPSBT", "load", "signEIP712Message",
                             "signPersonalMessage"}

RECURSIVE Flatten(_)
Flatten(ss) == IF ss = <<>> THEN <<>> ELSE Head(ss) \o Flatten(Tail(ss))

\* The payload: byte i of the buffer (0-based) is i mod 256.
Payload(len) == [i \in 1..len |-> (i - 1) % 256]

\* The BIP32 indices splitPath returns: index i is 0x01020304 * i.
PathElement(i) == 16909060 * i

\* Buffer.writeUInt32BE
UInt32BE(x) == << (x \div 16777216) % 256, (x \div 65536) % 256, (x \div 256) % 256, x % 256 >>

\* buffer[0] = paths.length; paths.forEach(writeUInt32BE); writeUInt32BE(length)
Header(kind, n, len) ==
    (IF HasPath(kind)
     THEN <<n>> \o Flatten([i \in 1..n |-> UInt32BE(PathElement(i))])
     ELSE <<>>)
    \o (IF HasLength(kind) THEN UInt32BE(len) ELSE <<>>)

\* Mutant of MaxChunkSize: the first chunk gets the whole budget, its header
\* is not counted.
MaxChunkSize_NoHeaderRoom(kind, n, offset) ==
    CASE kind \in {"signEthTransaction", "signEIP712Message", "signPersonalMessage"} ->
            TxBudget
      [] kind \in {"sendChunks", "signPSBT"} -> MsgBudget
      [] OTHER -> LoadBudget

\* const maxChunkSize = ...
MaxChunkSize(kind, n, offset) ==
    CASE kind = "signEthTransaction" ->
            IF offset = 0 THEN TxBudget - 1 - n * 4 ELSE TxBudget
      [] kind = "sendChunks" ->
            IF offset = 0 THEN MsgBudget - 1 - n * 4 - 4 ELSE MsgBudget
      [] kind = "signPSBT" ->
            IF offset = 0 THEN MsgBudget - 4 ELSE MsgBudget
      [] kind = "load" -> LoadBudget
      [] kind \in {"signEIP712Message", "signPersonalMessage"} ->
            IF offset = 0 THEN TxBudget - 1 - n * 4 - 4 ELSE TxBudget

\* Mutant of ChunkSize: the EIP-155 boundary rule is missing.
ChunkSize_NoBoundaryRule(kind, n, len, vrs, offset) ==
    IF offset + MaxChunkSize(kind, n, offset) > len
    THEN len - offset
    ELSE MaxChunkSize(kind, n, offset)

\* chunkSize, with the boundary rule of signEthTransaction (index.ts:502-507).
ChunkSize(kind, n, len, vrs, offset) ==
    LET naive == IF offset + MaxChunkSize(kind, n, offset) > len
                 THEN len - offset
                 ELSE MaxChunkSize(kind, n, offset)
    IN  IF kind = "signEthTransaction" /\ vrs # 0 /\ offset + naive >= vrs
        THEN len - offset
        ELSE naive

\* Mutant of CopySlice: the copy starts one byte late.
CopySlice_OffByOne(len, offset, size) ==
    SubSeq(Payload(len), offset + 2, offset + size) \o
        (IF size > 0 THEN <<0>> ELSE <<>>)

\* source.copy(buffer, target, offset, offset + chunkSize) into a zero-filled
\* buffer of the chunk's size: the bytes offset .. offset + chunkSize - 1.
CopySlice(len, offset, size) == SubSeq(Payload(len), offset + 1, offset + size)

\* The buffer of one iteration.
ChunkBuffer(kind, n, len, vrs, offset) ==
    (IF offset = 0 THEN Header(kind, n, len) ELSE <<>>)
    \o CopySlice(len, offset, ChunkSize(kind, n, len, vrs, offset))

\* The p1 of one iteration: first ? 0x00 : 0x80 in Commands, APDU_FIELDS.P1
\* in the legacy EIP-712 signing (eip712.ts:18, eip712.ts:44).
ChunkP1(kind, offset) ==
    IF kind = "signEIP712Message"
    THEN P1First
    ELSE IF offset = 0 THEN P1First ELSE P1More

ChunkInit ==
    /\ chKind \in ChunkKinds
    /\ chPaths \in (IF HasPath(chKind) THEN 0..MaxPathLen ELSE {0})
    /\ chLen \in (IF chKind \in {"signEthTransaction", "signEIP712Message",
                                  "signPersonalMessage"}
                  THEN 0..MaxTxLen ELSE 0..MaxMsgLen)
    /\ chVrs \in (IF chKind = "signEthTransaction" THEN 0..chLen ELSE {0})
    /\ chOffset = 0
    /\ chSent = <<>>
    /\ chPc = "loop"
    /\ chFailed = <<>>
    /\ chError = NoError
    /\ chEmitted = <<>>
    /\ chPending = <<>>

\* The operations whose exchanges may fail: as ChunkInit, the marker of
\* signEthTransaction absent or in the middle of the transaction.
ChunkFailInit ==
    /\ chKind \in ChunkKinds
    /\ chPaths \in (IF HasPath(chKind) THEN 0..MaxPathLen ELSE {0})
    /\ chLen \in (IF chKind \in {"signEthTransaction", "signEIP712Message",
                                  "signPersonalMessage"}
                  THEN 0..MaxTxLen ELSE 0..MaxMsgLen)
    /\ chVrs \in (IF chKind = "signEthTransaction" THEN {0, chLen \div 2} ELSE {0})
    /\ chOffset = 0
    /\ chSent = <<>>
    /\ chPc = "loop"
    /\ chFailed = <<>>
    /\ chError = NoError
    /\ chEmitted = <<>>
    /\ chPending = <<>>

ChunkIdle ==
    /\ chKind = "none"
    /\ chPaths = 0
    /\ chLen = 0
    /\ chVrs = 0
    /\ chOffset = 0
    /\ chSent = <<>>
    /\ chPc = "idle"
    /\ chFailed = <<>>
    /\ chError = NoError
    /\ chEmitted = <<>>
    /\ chPending = <<>>

\* Mutant of RemapTransactionRelatedErrors: every status error is remapped.
RemapTransactionRelatedErrors_AnyStatus(e) ==
    IF "statusCode" \in DOMAIN e THEN [name |-> "InvalidTxData"] ELSE e

\* remapTransactionRelatedErrors(e) (index.ts:415-421)
RemapTransactionRelatedErrors(e) ==
    IF "statusCode" \in DOMAIN e /\ e.statusCode = IncorrectData
    THEN [name |-> "InvalidTxData"]
    ELSE e

\* What the operation throws when its send threw e: signEthTransaction
\* catches and remaps (index.ts:521-523), the others let e through.
OperationError(kind, e) ==
    IF kind = "signEthTransaction" THEN RemapTransactionRelatedErrors(e) ELSE e

\* The errors a send whose data passed the length check can throw: a status
\* error for a status word other than OK, or what this.exchange threw.
SendFailures ==
    {TransportStatusError(sw) : sw \in StatusWords \ {StatusOK}}
        \cup {[name |-> "ExchangeError"]}

\* Mutant of LoadedCount: the length of the buffer sent, header included.
LoadedCount_WithHeader(kind, n, len, vrs, offset) ==
    Len(ChunkBuffer(kind, n, len, vrs, offset))

\* this.transport.emit("chunk-loaded", chunkSize) (index.ts:747)
LoadedCount(kind, n, len, vrs, offset) == ChunkSize(kind, n, len, vrs, offset)

\* Mutant of ChunkStep: `offset += chunkSize` is left out.
ChunkStep_NoAdvance ==
    /\ chPc = "loop"
    /\ chOffset # chLen
    /\ LET buf == ChunkBuffer(chKind, chPaths, chLen, chVrs, chOffset)
       IN  IF Len(buf) >= MaxDataLength
           THEN /\ chPc' = "tooBig"
                /\ chError' = OperationError(chKind, [name |-> "TransportError",
                                                      id |-> "DataLengthTooBig"])
                /\ UNCHANGED <<chOffset, chSent, chEmitted>>
           ELSE /\ chSent' = Append(chSent, [p1 |-> ChunkP1(chKind, chOffset), buf |-> buf])
                /\ chEmitted' =
                      IF chKind = "load"
                      THEN Append(chEmitted,
                                  LoadedCount(chKind, chPaths, chLen, chVrs, chOffset))
                      ELSE chEmitted
                /\ chPc' = "loop"
                /\ UNCHANGED <<chOffset, chError>>
    /\ UNCHANGED <<chKind, chLen, chPaths, chVrs, chFailed, chPending, notChunk>>

\* One iteration of `while (offset !== length)` whose send returns: the
\* buffer is built and sent, load emits "chunk-loaded", offset moves on.  send
\* rejects a buffer of 256 bytes or more before any exchange.
ChunkStep ==
    /\ chPc = "loop"
    /\ chOffset # chLen
    /\ LET buf == ChunkBuffer(chKind, chPaths, chLen, chVrs, chOffset)
       IN  IF Len(buf) >= MaxDataLength
           THEN /\ chPc' = "tooBig"
                /\ chError' = OperationError(chKind, [name |-> "TransportError",
                                                      id |-> "DataLengthTooBig"])
                /\ UNCHANGED <<chOffset, chSent, chEmitted>>
           ELSE /\ chSent' = Append(chSent, [p1 |-> ChunkP1(chKind, chOffset), buf |-> buf])
                /\ chEmitted' =
                      IF chKind = "load"
                      THEN Append(chEmitted,
                                  LoadedCount(chKind, chPaths, chLen, chVrs, chOffset))
                      ELSE chEmitted
                /\ chOffset' = chOffset + ChunkSize(chKind, chPaths, chLen, chVrs, chOffset)
                /\ chPc' = "loop"
                /\ UNCHANGED chError
    /\ UNCHANGED <<chKind, chLen, chPaths, chVrs, chFailed, chPending, notChunk>>

\* Mutant of ChunkFail: the failed exchange is sent again.
ChunkFail_Retry(e) ==
    /\ chPc = "loop"
    /\ chOffset # chLen
    /\ Len(ChunkBuffer(chKind, chPaths, chLen, chVrs, chOffset)) < MaxDataLength
    /\ chFailed' = Append(chFailed,
                          [at |-> Len(chSent) + Len(chFailed) + 1,
                           buf |-> ChunkBuffer(chKind, chPaths, chLen, chVrs, chOffset),
                           error |-> e])
    /\ chError' = OperationError(chKind, e)
    /\ UNCHANGED <<chKind, chLen, chPaths, chVrs, chOffset, chSent, chEmitted, chPc,
                   chPending, notChunk>>

\* One iteration whose send throws e after its raw exchange: the exception
\* leaves the loop and the operation.
ChunkFail(e) ==
    /\ chPc = "loop"
    /\ chOffset # chLen
    /\ Len(ChunkBuffer(chKind, chPaths, chLen, chVrs, chOffset)) < MaxDataLength
    /\ chFailed' = Append(chFailed,
                          [at |-> Len(chSent) + Len(chFailed) + 1,
                           buf |-> ChunkBuffer(chKind, chPaths, chLen, chVrs, chOffset),
                           error |-> e])
    /\ chError' = OperationError(chKind, e)
    /\ chPc' = "failed"
    /\ UNCHANGED <<chKind, chLen, chPaths, chVrs, chOffset, chSent, chEmitted, chPending, notChunk>>

\* The code after the loop reads response[0] (index.ts:528, 614, 720, 752):
\* with no iteration run, response is undefined and the read throws TypeError.
ChunkFinish ==
    /\ chPc = "loop"
    /\ chOffset = chLen
    /\ chPc' = IF chSent = <<>> THEN "typeError" ELSE "done"
    /\ UNCHANGED <<chKind, chLen, chPaths, chVrs, chOffset, chSent, chFailed, chError,
                   chEmitted, chPending, notChunk>>

ChunkNext == ChunkStep \/ ChunkFinish

\* Mutant of ChunkStart: the send is not awaited, the loop goes on at once.
ChunkStart_NoAwait ==
    /\ chPc = "loop"
    /\ chOffset # chLen
    /\ LET buf == ChunkBuffer(chKind, chPaths, chLen, chVrs, chOffset)
       IN  IF Len(buf) >= MaxDataLength
           THEN /\ chPc' = "tooBig"
                /\ chError' = OperationError(chKind, [name |-> "TransportError",
                                                      id |-> "DataLengthTooBig"])
                /\ UNCHANGED <<chPending, chOffset>>
           ELSE /\ chPending' = Append(chPending,
                                       [p1 |-> ChunkP1(chKind, chOffset), buf |-> buf])
                /\ chOffset' = chOffset + ChunkSize(chKind, chPaths, chLen, chVrs, chOffset)
                /\ UNCHANGED <<chPc, chError>>
    /\ UNCHANGED <<chKind, chLen, chPaths, chVrs, chSent, chFailed, chEmitted,
                   notChunk>>

\* One iteration up to its await: the buffer is built and given to send,
\* which starts the raw exchange or throws DataLengthTooBig.
ChunkStart ==
    /\ chPc = "loop"
    /\ chOffset # chLen
    /\ LET buf == ChunkBuffer(chKind, chPaths, chLen, chVrs, chOffset)
       IN  IF Len(buf) >= MaxDataLength
           THEN /\ chPc' = "tooBig"
                /\ chError' = OperationError(chKind, [name |-> "TransportError",
                                                      id |-> "DataLengthTooBig"])
                /\ UNCHANGED chPending
           ELSE /\ chPending' = Append(chPending,
                                       [p1 |-> ChunkP1(chKind, chOffset), buf |-> buf])
                /\ chPc' = "await"
                /\ UNCHANGED chError
    /\ UNCHANGED <<chKind, chLen, chPaths, chVrs, chOffset, chSent, chFailed, chEmitted,
                   notChunk>>

\* The iteration after its await, send having returned the response: load
\* emits "chunk-loaded", offset moves on, the loop condition is next.
ChunkResume ==
    /\ chPc = "await"
    /\ chPending # <<>>
    /\ chSent' = Append(chSent, Head(chPending))
    /\ chPending' = Tail(chPending)
    /\ chEmitted' =
          IF chKind = "load"
          THEN Append(chEmitted, LoadedCount(chKind, chPaths, chLen, chVrs, chOffset))
          ELSE chEmitted
    /\ chOffset' = chOffset + ChunkSize(chKind, chPaths, chLen, chVrs, chOffset)
    /\ chPc' = "loop"
    /\ UNCHANGED <<chKind, chLen, chPaths, chVrs, chFailed, chError, notChunk>>

\* The iteration after its await, send having thrown e.
ChunkReject(e) ==
    /\ chPc = "await"
    /\ chPending # <<>>
    /\ chFailed' = Append(chFailed,
                          [at |-> Len(chSent) + Len(chFailed) + 1,
                           buf |-> Head(chPending).buf,
                           error |-> e])
    /\ chPending' = Tail(chPending)
    /\ chError' = OperationError(chKind, e)
    /\ chPc' = "failed"
    /\ UNCHANGED <<chKind, chLen, chPaths, chVrs, chOffset, chSent, chEmitted, notChunk>>

ChunkAwaitNext ==
    \/ ChunkStart
    \/ ChunkResume
    \/ \E e \in SendFailures : ChunkReject(e)
    \/ ChunkFinish

ChunkFailNext ==
    \/ ChunkStep
    \/ \E e \in SendFailures : ChunkFail(e)
    \/ ChunkFinish


-----------------------------------------------------------------------------
(***************************************************************************)
(* Link framer.                                                            *)
(*                                                                         *)
(* A payload is framed by makeBlocks and its packets are given, in order,  *)
(* to reduceResponse, one packet per action; getReducedResult is then      *)
(* asked for the result.                                                   *)
(***************************************************************************)

\* Bounds of the framing model: packet sizes 6..MaxPacketSize (blockSize =
\* packetSize - 5 is positive), payload lengths 0..MaxApduLen and LongApdu..LongApdu+MaxApduLen (lengths
\* whose high length byte is not zero).
MaxPacketSize == 10
MaxApduLen == 12
LongApdu == 250

\* part_002:21
Tag == 5

FrameChannels == {4660, 65535}
PacketSizes == 6..MaxPacketSize
ApduLengths == (0..MaxApduLen) \cup (LongApdu..(LongApdu + MaxApduLen))

\* The framed payload: no byte of it is zero, the padding is.
Apdu(len) == [i \in 1..len |-> ((i - 1) % 255) + 1]

\* Buffer.writeUInt16BE / asUInt16BE
UInt16BE(x) == << (x \div 256) % 256, x % 256 >>

\* Buffer.readUInt16BE(offset); -1 stands for the RangeError of a read that
\* does not lie within the buffer.
ReadUInt16BE(buf, offset) ==
    IF offset + 2 > Len(buf) THEN -1 ELSE buf[offset + 1] * 256 + buf[offset + 2]

\* Buffer.readUInt8(offset)
ReadUInt8(buf, offset) ==
    IF offset + 1 > Len(buf) THEN -1 ELSE buf[offset + 1]

\* Buffer.subarray(start, end): both ends are clamped to the buffer.
Subarray(buf, start, end) ==
    LET e == IF end > Len(buf) THEN Len(buf) ELSE end
    IN  IF start >= e THEN <<>> ELSE SubSeq(buf, start + 1, e)

Zeros(n) == [i \in 1..n |-> 0]

\* Math.ceil(a / b) for a >= 0, b > 0
CeilDiv(a, b) == (a + b - 1) \div b

\* Mutant of MakeBlocks: the data is not filled with padding.
MakeBlocks_NoPadding(channel, packetSize, apdu) ==
    LET data == UInt16BE(Len(apdu)) \o apdu
        blockSize == packetSize - 5
        nbBlocks == CeilDiv(Len(data), blockSize)
    IN  [i \in 1..nbBlocks |->
            UInt16BE(channel) \o <<Tag>> \o UInt16BE(i - 1)
            \o Subarray(data, (i - 1) * blockSize, i * blockSize)]

\* makeBlocks(apdu) (part_002:49-69)
MakeBlocks(channel, packetSize, apdu) ==
    LET data0 == UInt16BE(Len(apdu)) \o apdu
        blockSize == packetSize - 5
        nbBlocks == CeilDiv(Len(data0), blockSize)
        data == data0 \o Zeros(nbBlocks * blockSize - Len(data0) + 1)
    IN  [i \in 1..nbBlocks |->
            UInt16BE(channel) \o <<Tag>> \o UInt16BE(i - 1)
            \o Subarray(data, (i - 1) * blockSize, i * blockSize)]

NullAcc == [isNull |-> TRUE]

\* part_002:31-35
InitialAcc == [data |-> <<>>, dataLength |-> 0, sequence |-> 0]

\* Mutant of Accumulate: the data is never cut to the declared length.
Accumulate_NoTruncate(data, chunkData, dataLength) == data \o chunkData

\* data = Buffer.concat([data, chunkData]), cut to dataLength (part_002:92-96)
Accumulate(data, chunkData, dataLength) ==
    LET all == data \o chunkData
    IN  IF Len(all) > dataLength THEN Subarray(all, 0, dataLength) ELSE all

\* Mutant of ReduceResponse: the sequence check is missing.
ReduceResponse_NoSequenceCheck(channel, acc, chunk) ==
    LET cur == IF acc = NullAcc THEN InitialAcc ELSE acc
        fail(id) == [err |-> id, acc |-> acc]
    IN  IF ReadUInt16BE(chunk, 0) = -1 THEN fail("RangeError")
        ELSE IF ReadUInt16BE(chunk, 0) # channel THEN fail("InvalidChannel")
        ELSE IF ReadUInt8(chunk, 2) = -1 THEN fail("RangeError")
        ELSE IF ReadUInt8(chunk, 2) # Tag THEN fail("InvalidTag")
        ELSE IF ReadUInt16BE(chunk, 3) = -1 THEN fail("RangeError")
        ELSE IF acc = NullAcc /\ ReadUInt16BE(chunk, 5) = -1 THEN fail("RangeError")
        ELSE LET dataLength == IF acc = NullAcc THEN ReadUInt16BE(chunk, 5)
                               ELSE cur.dataLength
                 chunkData == Subarray(chunk, IF acc = NullAcc THEN 7 ELSE 5, Len(chunk))
             IN  [err |-> "none",
                  acc |-> [data |-> Accumulate(cur.data, chunkData, dataLength),
                           dataLength |-> dataLength,
                           sequence |-> cur.sequence + 1]]

\* reduceResponse(acc, chunk) (part_002:71-103): [err, acc], err the id of the
\* error thrown or "none".
ReduceResponse(channel, acc, chunk) ==
    LET cur == IF acc = NullAcc THEN InitialAcc ELSE acc
        fail(id) == [err |-> id, acc |-> acc]
    IN  IF ReadUInt16BE(chunk, 0) = -1 THEN fail("RangeError")
        ELSE IF ReadUInt16BE(chunk, 0) # channel THEN fail("InvalidChannel")
        ELSE IF ReadUInt8(chunk, 2) = -1 THEN fail("RangeError")
        ELSE IF ReadUInt8(chunk, 2) # Tag THEN fail("InvalidTag")
        ELSE IF ReadUInt16BE(chunk, 3) = -1 THEN fail("RangeError")
        ELSE IF ReadUInt16BE(chunk, 3) # cur.sequence THEN fail("InvalidSequence")
        ELSE IF acc = NullAcc /\ ReadUInt16BE(chunk, 5) = -1 THEN fail("RangeError")
        ELSE LET dataLength == IF acc = NullAcc THEN ReadUInt16BE(chunk, 5)
                               ELSE cur.dataLength
                 chunkData == Subarray(chunk, IF acc = NullAcc THEN 7 ELSE 5, Len(chunk))
             IN  [err |-> "none",
                  acc |-> [data |-> Accumulate(cur.data, chunkData, dataLength),
                           dataLength |-> dataLength,
                           sequence |-> cur.sequence + 1]]

\* getReducedResult(acc) (part_002:105-109): the data, or <<-1>> for undefined.
Undefined == <<-1>>

\* Mutant of GetReducedResult: the lengths are not compared.
GetReducedResult_NoLengthCheck(acc) ==
    IF acc # NullAcc THEN acc.data ELSE Undefined

GetReducedResult(acc) ==
    IF acc # NullAcc /\ acc.dataLength = Len(acc.data) THEN acc.data ELSE Undefined

FrameInit ==
    /\ frChannel \in FrameChannels
    /\ frPacketSize \in PacketSizes
    /\ frApduLen \in ApduLengths
    /\ frBlocks = MakeBlocks(frChannel, frPacketSize, Apdu(frApduLen))
    /\ frFed = 0
    /\ frLast = <<>>
    /\ frAcc = NullAcc
    /\ frResult = Undefined
    /\ frPc = "reduce"

FrameIdle ==
    /\ frChannel = 0
    /\ frPacketSize = 0
    /\ frApduLen = 0
    /\ frBlocks = <<>>
    /\ frFed = 0
    /\ frLast = <<>>
    /\ frAcc = NullAcc
    /\ frResult = Undefined
    /\ frPc = "idle"

\* The next packet is given to reduceResponse.
FrameReduce ==
    /\ frPc = "reduce"
    /\ frFed < Len(frBlocks)
    /\ LET r == ReduceResponse(frChannel, frAcc, frBlocks[frFed + 1])
       IN  IF r.err = "none"
           THEN /\ frAcc' = r.acc
                /\ frFed' = frFed + 1
                /\ frPc' = "reduce"
           ELSE /\ frPc' = r.err
                /\ UNCHANGED <<frAcc, frFed>>
    /\ frLast' = frBlocks[frFed + 1]
    /\ UNCHANGED <<frChannel, frPacketSize, frApduLen, frBlocks, frResult, notFrame>>

\* The packet with its channel, tag and index fields overwritten.
Tamper(packet, channel, tag, index) ==
    UInt16BE(channel) \o <<tag>> \o UInt16BE(index) \o Subarray(packet, 5, Len(packet))

\* The next packet reaches reduceResponse from the link with the given
\* channel, tag and index in its first five bytes.
FrameFeed(channel, tag, index) ==
    /\ frPc = "reduce"
    /\ frFed < Len(frBlocks)
    /\ LET packet == Tamper(frBlocks[frFed + 1], channel, tag, index)
           r == ReduceResponse(frChannel, frAcc, packet)
       IN  /\ frLast' = packet
           /\ IF r.err = "none"
              THEN /\ frAcc' = r.acc
                   /\ frFed' = frFed + 1
                   /\ frPc' = "reduce"
              ELSE /\ frPc' = r.err
                   /\ UNCHANGED <<frAcc, frFed>>
    /\ UNCHANGED <<frChannel, frPacketSize, frApduLen, frBlocks, frResult, notFrame>>

\* All packets were accepted: getReducedResult.
FrameResult ==
    /\ frPc = "reduce"
    /\ frFed = Len(frBlocks)
    /\ frResult' = GetReducedResult(frAcc)
    /\ frPc' = "result"
    /\ UNCHANGED <<frChannel, frPacketSize, frApduLen, frBlocks, frFed, frLast, frAcc,
                   notFrame>>

FrameNext == FrameReduce \/ FrameResult

\* Reassembly of packets as the link delivers them: the index is the expected
\* one, the next one (a packet was skipped) or the one before (a repeat).
FeedNext ==
    \/ \E channel \in FrameChannels, tag \in {Tag, Tag + 1},
          index \in {frFed, frFed + 1, (frFed + 65535) % 65536} :
            FrameFeed(channel, tag, index)
    \/ FrameResult

-----------------------------------------------------------------------------
(***************************************************************************)
(* Structured data.                                                        *)
(*                                                                         *)
(* A JavaScript value is a record: [t |-> "prim", v |-> token],            *)
(* [t |-> "arr", items |-> sequence of values] or [t |-> "obj",            *)
(* entries |-> sequence of <<key, value>>], the entries in the order       *)
(* Object.entries yields them.  A path is the sequence of its segments     *)
(* (".from.[]" is <<"from", "[]">>).  An exchange is [ins, p1, p2, buf]    *)
(* with the path of the value it belongs to.                               *)
(***************************************************************************)

\* Bounds of the structured-data model: the longest encoded leaf value and the
\* longest array of the message.
MaxEncodedLen == 515
MaxArrayLen == 2

\* part_001:237, 334
InsStructImplem == 28
InsFilteringInfo == 30
\* part_001:238-242
P1Complete == 0
P1Partial == 1
P2Array == 15
P2Field == 255
\* part_001:295, 297
SliceCount == 256
SliceSize == 255

\* message.types: each type with its fields in declaration order.  Parcel
\* names a type, Box, that the map does not declare.
Types ==
    [Mail |-> << <<"from", "Person">>, <<"to", "Person[]">>, <<"contents", "string">> >>,
     Person |-> << <<"name", "string">>, <<"wallet", "address">> >>,
     Parcel |-> << <<"label", "string">>, <<"inside", "Box">> >>]

\* typesMap[typeName]?.[fieldName] (part_001:117-120, 143): "undefined" when
\* the type or the field is not declared; a later declaration of a name wins.
TypesMapLookup(typeName, fieldName) ==
    IF typeName \notin DOMAIN Types THEN "undefined"
    ELSE LET hits == {i \in 1..Len(Types[typeName]) : Types[typeName][i][1] = fieldName}
         IN  IF hits = {} THEN "undefined"
             ELSE Types[typeName][CHOOSE i \in hits : \A j \in hits : j <= i][2]

\* destructTypeFromString: the base type name and the array-size markers.
DestructTypeFromString(type) ==
    CASE type = "Person[]" -> [name |-> "Person", sizes |-> <<"dynamic">>]
      [] OTHER -> [name |-> type, sizes |-> <<>>]

\* !EIP712_TYPE_PROPERTIES[name.toUpperCase()]
IsCustomType(name) ==
    name \notin {"int", "uint", "address", "bool", "bytes", "string"}

\* EIP712_TYPE_ENCODERS[type](rawData): a leaf token is encoded as one byte.
EncodeLeaf(v) == <<v>>

\* The encoded leaf value of n bytes used by the field model.
Encoded(n) == [i \in 1..n |-> ((i - 1) % 255) + 1]

\* Buffer.slice(start, end)
Slice(buf, start, end) == Subarray(buf, start, end)

\* The exchanges of sendStructImplem for structType "field" (part_001:283-310).
FieldExchanges_AllComplete(encodedData, path) ==
    LET data == <<Len(encodedData) \div 256, Len(encodedData) % 256>> \o encodedData
        nSlices == CeilDiv(Len(data), SliceCount)
    IN  [i \in 1..nSlices |->
            [ins |-> InsStructImplem,
             p1 |-> P1Complete,
             p2 |-> P2Field,
             buf |-> Slice(data, (i - 1) * SliceSize, i * SliceSize),
             path |-> path]]

FieldExchanges(encodedData, path) ==
    LET dataLengthPer16Bits == Len(encodedData) \div 256
        dataLengthModulo16Bits == Len(encodedData) % 256
        data == <<dataLengthPer16Bits, dataLengthModulo16Bits>> \o encodedData
        nSlices == CeilDiv(Len(data), SliceCount)
    IN  [i \in 1..nSlices |->
            [ins |-> InsStructImplem,
             p1 |-> IF i # nSlices THEN P1Partial ELSE P1Complete,
             p2 |-> P2Field,
             buf |-> Slice(data, (i - 1) * SliceSize, i * SliceSize),
             path |-> path]]

\* Mutant of ArrayExchange: the record carries length - 1.
ArrayExchange_CountFromZero(length, path) ==
    [ins |-> InsStructImplem, p1 |-> P1Complete, p2 |-> P2Array,
     buf |-> <<(length + 255) % 256>>, path |-> path]

\* The exchange of sendStructImplem for structType "array" (part_001:257-265).
ArrayExchange(length, path) ==
    [ins |-> InsStructImplem, p1 |-> P1Complete, p2 |-> P2Array,
     buf |-> <<length>>, path |-> path]

\* The exchange of sendFilteringInfo for "showField" (part_001:375-396).
ShowFieldExchange(filter, path) ==
    [ins |-> InsFilteringInfo, p1 |-> 0, p2 |-> P2Field,
     buf |-> <<Len(filter.label)>> \o filter.label \o <<Len(filter.signature)>>
             \o filter.signature,
     path |-> path]

\* Object.entries(data)
ObjectEntries(data) == IF data.t = "obj" THEN data.entries ELSE <<>>

\* filters?.fields.find(f => path === f.path): 0 when there is none.
\* Mutant of FindFilter: the last filter of that path is taken.
FindFilter_Last(filters, path) ==
    LET hits == {i \in 1..Len(filters) : filters[i].path = path}
    IN  IF hits = {} THEN 0 ELSE CHOOSE i \in hits : \A j \in hits : j <= i

FindFilter(filters, path) ==
    LET hits == {i \in 1..Len(filters) : filters[i].path = path}
    IN  IF hits = {} THEN 0 ELSE CHOOSE i \in hits : \A j \in hits : i <= j

\* The <<fieldName, fieldValue>> pairs the loop over a composite value visits,
\* in its order: for (const [fieldName, fieldValue] of Object.entries(data))
\* (part_001:142).
FieldsInOrder(typeName, data) == ObjectEntries(data)

\* recursiveFieldStructImplem(destructedType, data, path) (part_001:124-172):
\* the exchanges it sends, in order.
RECURSIVE RecursiveFieldStructImplem(_, _, _, _)
RecursiveFieldStructImplem(filters, destructedType, data, path) ==
    IF data.t = "arr" /\ destructedType.sizes # <<>>
    THEN <<ArrayExchange(Len(data.items), path)>>
         \o Flatten([i \in 1..Len(data.items) |->
                RecursiveFieldStructImplem(
                    filters,
                    [name |-> destructedType.name, sizes |-> Tail(destructedType.sizes)],
                    data.items[i],
                    Append(path, "[]"))])
    ELSE IF IsCustomType(destructedType.name)
    THEN LET fields == FieldsInOrder(destructedType.name, data)
         IN  Flatten([i \in 1..Len(fields) |->
                LET fieldType == TypesMapLookup(destructedType.name, fields[i][1])
                IN  IF fieldType # "undefined"
                    THEN RecursiveFieldStructImplem(
                             filters,
                             DestructTypeFromString(fieldType),
                             fields[i][2],
                             Append(path, fields[i][1]))
                    ELSE <<>>])
    ELSE LET f == FindFilter(filters, path)
         IN  (IF f # 0 THEN <<ShowFieldExchange(filters[f], path)>> ELSE <<>>)
             \o FieldExchanges(EncodeLeaf(data.v), path)

\* ---- the inputs ----
Prim(v) == [t |-> "prim", v |-> v]

\* A Person object, its keys in declaration order or reversed.
PersonObject(reversed, nameTok) ==
    [t |-> "obj",
     entries |-> IF reversed
                 THEN << <<"wallet", Prim(nameTok + 1)>>, <<"name", Prim(nameTok)>> >>
                 ELSE << <<"name", Prim(nameTok)>>, <<"wallet", Prim(nameTok + 1)>> >>]

Permutations3 == {p \in [1..3 -> 1..3] : \A i, j \in 1..3 : p[i] = p[j] => i = j}

\* A Mail object: keyOrder permutes its three keys, `to` holds Len(flips) - 1
\* persons, flips[1] reverses the keys of `from`, flips[i + 1] those of to[i].
MailObject(keyOrder, flips) ==
    LET k == Len(flips) - 1
        canonical ==
            << <<"from", PersonObject(flips[1], 10)>>,
               <<"to", [t |-> "arr",
                        items |-> [i \in 1..k |-> PersonObject(flips[i + 1], 10 + 10 * i)]]>>,
               <<"contents", Prim(1)>> >>
    IN  [t |-> "obj", entries |-> [i \in 1..3 |-> canonical[keyOrder[i]]]]

Messages ==
    {MailObject(p, f) : p \in Permutations3,
                        f \in UNION {[1..(k + 1) -> BOOLEAN] : k \in 0..MaxArrayLen}}

\* A Mail object without the key `dropped`, with a key `nonce` that Mail does
\* not declare when extra holds; flip reverses the keys of its persons.
PartialMailObject(dropped, extra, flip) ==
    LET canonical ==
            << <<"from", PersonObject(flip, 10)>>,
               <<"to", [t |-> "arr", items |-> << PersonObject(flip, 20) >>]>>,
               <<"contents", Prim(1)>> >>
        IsKept(entry) == entry[1] # dropped
    IN  [t |-> "obj",
         entries |-> (IF extra THEN << <<"nonce", Prim(7)>> >> ELSE <<>>)
                     \o SelectSeq(canonical, IsKept)]

PartialMessages ==
    {PartialMailObject(d, x, f) : d \in {"from", "to", "contents"},
                                  x \in BOOLEAN, f \in BOOLEAN}

\* Bound of the Parcel inputs: the tokens of the label.
MaxLabel == 12

\* A Parcel object: its two keys in declaration order or reversed; `inside`
\* holds the value whose type is not declared.
ParcelObject(reversed, labelTok, inside) ==
    [t |-> "obj",
     entries |-> IF reversed
                 THEN << <<"inside", inside>>, <<"label", Prim(labelTok)>> >>
                 ELSE << <<"label", Prim(labelTok)>>, <<"inside", inside>> >>]

\* The values of type Box: an object with fields, an empty object, a token.
BoxValues ==
    { [t |-> "obj", entries |-> << <<"width", Prim(3)>>, <<"height", Prim(4)>> >>],
      [t |-> "obj", entries |-> <<>>],
      Prim(9) }

ParcelMessages ==
    {ParcelObject(r, l, b) : r \in BOOLEAN, l \in 1..MaxLabel, b \in BoxValues}

FilterChoices ==
    { <<>>,
      << [path |-> <<"contents">>, label |-> <<67>>, signature |-> <<48, 1>>] >>,
      << [path |-> <<"from">>, label |-> <<70>>, signature |-> <<48, 2>>],
         [path |-> <<"to", "[]", "name">>, label |-> <<78, 49>>, signature |-> <<48, 3>>],
         [path |-> <<"to", "[]", "name">>, label |-> <<78, 50>>, signature |-> <<48, 4>>] >> }

StructIdle ==
    /\ sdMessage = Prim(0)
    /\ sdFilters = <<>>
    /\ sdPlan = <<>>
    /\ sdSent = <<>>
    /\ sdPc = "idle"
    /\ sdRoot = "none"
    /\ sdFailed = <<>>
    /\ sdError = NoError
    /\ sdPending = <<>>

\* A call recursiveFieldStructImplem(destructTypeFromString(primaryType), message).
StructInit ==
    /\ sdMessage \in Messages
    /\ sdFilters \in FilterChoices
    /\ sdRoot = "Mail"
    /\ sdPlan = RecursiveFieldStructImplem(sdFilters, DestructTypeFromString(sdRoot),
                                           sdMessage, <<>>)
    /\ sdSent = <<>>
    /\ sdPc = "send"
    /\ sdFailed = <<>>
    /\ sdError = NoError
    /\ sdPending = <<>>

\* The same call on a message that lacks a declared key and may hold an
\* undeclared one.
PartialInit ==
    /\ sdMessage \in PartialMessages
    /\ sdFilters \in FilterChoices
    /\ sdRoot = "Mail"
    /\ sdPlan = RecursiveFieldStructImplem(sdFilters, DestructTypeFromString(sdRoot),
                                           sdMessage, <<>>)
    /\ sdSent = <<>>
    /\ sdPc = "send"
    /\ sdFailed = <<>>
    /\ sdError = NoError
    /\ sdPending = <<>>

\* The same call on a message one of whose values has a type name that is
\* neither primitive nor declared.
UnresolvedInit ==
    /\ sdMessage \in ParcelMessages
    /\ sdFilters \in FilterChoices
    /\ sdRoot = "Parcel"
    /\ sdPlan = RecursiveFieldStructImplem(sdFilters, DestructTypeFromString(sdRoot),
                                           sdMessage, <<>>)
    /\ sdSent = <<>>
    /\ sdPc = "send"
    /\ sdFailed = <<>>
    /\ sdError = NoError
    /\ sdPending = <<>>

\* A call sendStructImplem(transport, {structType: "field", value}) for a leaf
\* whose encoded value has n bytes.
FieldInit ==
    /\ \E n \in 0..MaxEncodedLen :
          /\ sdMessage = [t |-> "prim", v |-> n]
          /\ sdPlan = FieldExchanges(Encoded(n), <<>>)
    /\ sdFilters = <<>>
    /\ sdSent = <<>>
    /\ sdPc = "send"
    /\ sdRoot = "field"
    /\ sdFailed = <<>>
    /\ sdError = NoError
    /\ sdPending = <<>>

\* The next `await transport.send(...)` of the call.
StructSend ==
    /\ sdPc = "send"
    /\ sdPlan # <<>>
    /\ sdSent' = Append(sdSent, Head(sdPlan))
    /\ sdPlan' = Tail(sdPlan)
    /\ UNCHANGED <<sdMessage, sdFilters, sdPc, sdRoot, sdFailed, sdError, sdPending, notStruct>>

\* Mutant of StructFail: the error is swallowed and the traversal goes on
\* with the next exchange.
StructFail_Continue(e) ==
    /\ sdPc = "send"
    /\ sdPlan # <<>>
    /\ sdFailed' = Append(sdFailed,
                          [at |-> Len(sdSent) + Len(sdFailed) + 1,
                           exchange |-> Head(sdPlan), error |-> e])
    /\ sdError' = e
    /\ sdPlan' = Tail(sdPlan)
    /\ UNCHANGED <<sdMessage, sdFilters, sdSent, sdPc, sdRoot, sdPending, notStruct>>

\* The next `await transport.send(...)` of the call throws e after its raw
\* exchange: no caller of the chain catches, the call rejects with e.
StructFail(e) ==
    /\ sdPc = "send"
    /\ sdPlan # <<>>
    /\ sdFailed' = Append(sdFailed,
                          [at |-> Len(sdSent) + Len(sdFailed) + 1,
                           exchange |-> Head(sdPlan), error |-> e])
    /\ sdError' = e
    /\ sdPc' = "failed"
    /\ UNCHANGED <<sdMessage, sdFilters, sdPlan, sdSent, sdRoot, sdPending, notStruct>>

\* The call returns.
StructReturn ==
    /\ sdPc = "send"
    /\ sdPlan = <<>>
    /\ sdPc' = "done"
    /\ UNCHANGED <<sdMessage, sdFilters, sdPlan, sdSent, sdRoot, sdFailed, sdError,
                   sdPending, notStruct>>

StructNext == StructSend \/ StructReturn

\* The traversal up to its next await: transport.send starts the raw
\* exchange of the next record.
StructStart ==
    /\ sdPc = "send"
    /\ sdPlan # <<>>
    /\ sdPending' = Append(sdPending, Head(sdPlan))
    /\ sdPlan' = Tail(sdPlan)
    /\ sdPc' = "await"
    /\ UNCHANGED <<sdMessage, sdFilters, sdSent, sdRoot, sdFailed, sdError, notStruct>>

\* The traversal after its await, send having returned.
StructResume ==
    /\ sdPc = "await"
    /\ sdPending # <<>>
    /\ sdSent' = Append(sdSent, Head(sdPending))
    /\ sdPending' = Tail(sdPending)
    /\ sdPc' = "send"
    /\ UNCHANGED <<sdMessage, sdFilters, sdPlan, sdRoot, sdFailed, sdError, notStruct>>

\* The traversal after its await, send having thrown e.
StructReject(e) ==
    /\ sdPc = "await"
    /\ sdPending # <<>>
    /\ sdFailed' = Append(sdFailed,
                          [at |-> Len(sdSent) + Len(sdFailed) + 1,
                           exchange |-> Head(sdPending), error |-> e])
    /\ sdPending' = Tail(sdPending)
    /\ sdError' = e
    /\ sdPc' = "failed"
    /\ UNCHANGED <<sdMessage, sdFilters, sdPlan, sdSent, sdRoot, notStruct>>

StructAwaitNext ==
    \/ StructStart
    \/ StructResume
    \/ \E e \in SendFailures : StructReject(e)
    \/ StructReturn

StructFailNext ==
    \/ StructSend
    \/ \E e \in SendFailures : StructFail(e)
    \/ StructReturn

-----------------------------------------------------------------------------
(***************************************************************************)
(* Transport.send.                                                         *)
(*                                                                         *)
(* One call of send: the length check and the start of the raw exchange,   *)
(* then the code after `await this.exchange(...)`.  A thrown error is a    *)
(* record with its name and the fields its constructor sets.               *)
(***************************************************************************)

\* Bound of the send model: the longest data buffer.
MaxSendLen == 257

\* The statusList arguments.
StatusLists == { <<StatusOK>>, <<StatusOK, ConditionsNotSatisfied>>,
                 <<StatusOK, LockedDevice>>, <<>> }

\* The responses of a raw exchange: a body of 0 or 1 bytes and the status
\* word, or fewer than 2 bytes.
Responses ==
    {body \o UInt16BE(sw) : body \in {<<>>, <<7>>}, sw \in StatusWords}
        \cup {<<>>, <<144>>}

\* Mutant of StatusAccepted: the statusList argument is ignored, only OK passes.
StatusAccepted_OnlyOK(statusList, sw) == sw = StatusOK

\* statusList.some(s => s === sw)
StatusAccepted(statusList, sw) == \E i \in 1..Len(statusList) : statusList[i] = sw

\* Mutant of SendApdu: the length byte is missing.
SendApdu_NoLength(cla, ins, p1, p2, len) == <<cla, ins, p1, p2>> \o Payload(len)

\* Buffer.concat([Buffer.from([cla, ins, p1, p2]), Buffer.from([data.length]), data])
SendApdu(cla, ins, p1, p2, len) ==
    <<cla % 256, ins % 256, p1 % 256, p2 % 256>> \o <<len % 256>> \o Payload(len)

SendIdle ==
    /\ snArgs = [cla |-> 0, ins |-> 0, p1 |-> 0, p2 |-> 0, len |-> 0, statusList |-> <<>>]
    /\ snRaw = <<>>
    /\ snResponse = <<>>
    /\ snResult = Undefined
    /\ snError = NoError
    /\ snPc = "idle"

SendInit ==
    /\ snArgs \in [cla : {224}, ins : {4}, p1 : {P1First, P1More}, p2 : {0},
                   len : 0..MaxSendLen, statusList : StatusLists]
    /\ snRaw = <<>>
    /\ snResponse = <<>>
    /\ snResult = Undefined
    /\ snError = NoError
    /\ snPc = "call"

\* send up to its await (transport.ts:188-196): the length check, then the
\* APDU is handed to this.exchange.
SendCall ==
    /\ snPc = "call"
    /\ IF snArgs.len >= MaxDataLength
       THEN /\ snError' = [name |-> "TransportError", id |-> "DataLengthTooBig"]
            /\ snPc' = "failed"
            /\ UNCHANGED snRaw
       ELSE /\ snRaw' = Append(snRaw, SendApdu(snArgs.cla, snArgs.ins, snArgs.p1,
                                               snArgs.p2, snArgs.len))
            /\ snPc' = "exchange"
            /\ UNCHANGED snError
    /\ UNCHANGED <<snArgs, snResponse, snResult, notSend>>

\* this.exchange resolved with response: send from there to its end
\* (transport.ts:196-203).
SendExchangeResolves(response) ==
    /\ snPc = "exchange"
    /\ snResponse' = response
    /\ LET sw == ReadUInt16BE(response, Len(response) - 2)
       IN  IF Len(response) < 2
           THEN /\ snError' = [name |-> "RangeError"]
                /\ snPc' = "failed"
                /\ UNCHANGED snResult
           ELSE IF ~StatusAccepted(snArgs.statusList, sw)
           THEN /\ snError' = TransportStatusError(sw)
                /\ snPc' = "failed"
                /\ UNCHANGED snResult
           ELSE /\ snResult' = response
                /\ snPc' = "returned"
                /\ UNCHANGED snError
    /\ UNCHANGED <<snArgs, snRaw, notSend>>

\* this.exchange rejected: send rejects with the same error.
SendExchangeRejects ==
    /\ snPc = "exchange"
    /\ snError' = [name |-> "ExchangeError"]
    /\ snPc' = "failed"
    /\ UNCHANGED <<snArgs, snRaw, snResponse, snResult, notSend>>

SendNext ==
    \/ SendCall
    \/ \E response \in Responses : SendExchangeResolves(response)
    \/ SendExchangeRejects

-----------------------------------------------------------------------------
(***************************************************************************)
(* Signature recovery: signEthTransaction after its loop.                  *)
(*                                                                         *)
(* The last exchange has answered; v is derived from the first byte of the *)
(* response and from what decodeTxInfo found in the transaction.  A string *)
(* is the sequence of its characters.                                      *)
(***************************************************************************)

\* Bound of the recovery model: the largest chain ID.
MaxChainId == 240

\* index.ts:532  the largest v that fits the one-byte recovery encoding
MaxByte == 255
\* index.ts:532  the EIP-155 offset
Eip155Offset == 35

\* txType of decodeTxInfo: null for a legacy transaction, else the type byte
\* (1: EIP-2930, 2: EIP-1559).
TxTypes == {"null", "1", "2"}

\* chainIdTruncated of decodeTxInfo for a chain ID that fits in four bytes.
ChainIdTruncated(chainId) == chainId

HexDigits == <<"0", "1", "2", "3", "4", "5", "6", "7", "8", "9",
               "a", "b", "c", "d", "e", "f">>

\* Number.prototype.toString(16) / BigNumber.toString(16), x >= 0
RECURSIVE ToString16(_)
ToString16(x) ==
    IF x < 16 THEN <<HexDigits[x + 1]>>
    ELSE Append(ToString16(x \div 16), HexDigits[(x % 16) + 1])

\* Math.abs
Abs(x) == IF x < 0 THEN -x ELSE x

\* Mutant of PadEven: v is returned as toString(16) gave it.
PadEven_Never(v) == v

\* if (v.length % 2 == 1) v = "0" + v  (index.ts:548-550)
PadEven(v) == IF Len(v) % 2 = 1 THEN <<"0">> \o v ELSE v

\* oneByteChainId and ecc_parity (index.ts:533-534)
EccParity(responseByte, chainIdTruncated) ==
    Abs(responseByte - ((chainIdTruncated * 2 + Eip155Offset) % 256))

\* v before the padding (index.ts:532-545)
RecoveryV(tx, responseByte) ==
    IF tx.chainId * 2 + Eip155Offset + 1 > MaxByte
    THEN LET ecc_parity == EccParity(responseByte, tx.chainIdTruncated)
         IN  IF tx.txType # "null"
             THEN (IF ecc_parity % 2 = 1 THEN <<"0", "0">> ELSE <<"0", "1">>)
             ELSE ToString16(tx.chainId * 2 + Eip155Offset + ecc_parity)
    ELSE ToString16(responseByte)

RecoveryIdle ==
    /\ rvTx = [txType |-> "null", chainId |-> 0, chainIdTruncated |-> 0]
    /\ rvResponseByte = 0
    /\ rvParity = -1
    /\ rvV = <<>>
    /\ rvPc = "idle"

\* The loop of signEthTransaction awaits its last send.
RecoveryInit ==
    /\ \E t \in TxTypes, c \in 0..MaxChainId :
          rvTx = [txType |-> t, chainId |-> c, chainIdTruncated |-> ChainIdTruncated(c)]
    /\ rvResponseByte = 0
    /\ rvParity = -1
    /\ rvV = <<>>
    /\ rvPc = "await"

\* The last send returns a response whose first byte is b: the code from
\* index.ts:528 to the return.
RecoveryDerive(b) ==
    /\ rvPc = "await"
    /\ rvResponseByte' = b
    /\ rvParity' = IF rvTx.chainId * 2 + Eip155Offset + 1 > MaxByte
                   THEN EccParity(b, rvTx.chainIdTruncated) ELSE -1
    /\ rvV' = PadEven(RecoveryV(rvTx, b))
    /\ rvPc' = "done"
    /\ UNCHANGED <<rvTx, notRecovery>>

RecoveryNext == \E b \in 0..255 : RecoveryDerive(b)

-----------------------------------------------------------------------------
(***************************************************************************)
(* Transport.exchangeBulk.                                                 *)
(*                                                                         *)
(* main() runs up to its first await inside the call of exchangeBulk; each *)
(* later action is the stretch of main() that a settled exchange resumes,  *)
(* and the last one is the callback given to main().then.  unsubscribe()   *)
(* may be called between any two of them.                                  *)
(***************************************************************************)

\* Bound of the bulk model: the longest list of apdus.
MaxBulk == 3

BulkIdle ==
    /\ bkN = 0
    /\ bkRaw = <<>>
    /\ bkResponses = <<>>
    /\ bkUnsubscribed = FALSE
    /\ bkEvents = <<>>
    /\ bkMain = [name |-> "pending"]
    /\ bkPc = "idle"

BulkInit ==
    /\ bkN \in 0..MaxBulk
    /\ bkRaw = <<>>
    /\ bkResponses = <<>>
    /\ bkUnsubscribed = FALSE
    /\ bkEvents = <<>>
    /\ bkMain = [name |-> "pending"]
    /\ bkPc = "call"

\* exchangeBulk(apdus, observer) (transport.ts:105-130): main() starts the
\* first exchange, or returns at once for an empty list; the subscription is
\* returned.
BulkCall ==
    /\ bkPc = "call"
    /\ IF bkN = 0
       THEN /\ bkMain' = [name |-> "fulfilled"]
            /\ bkPc' = "settled"
            /\ UNCHANGED bkRaw
       ELSE /\ bkRaw' = <<1>>
            /\ bkPc' = "exchange"
            /\ UNCHANGED bkMain
    /\ UNCHANGED <<bkN, bkResponses, bkUnsubscribed, bkEvents, notBulk>>

\* unsubscribe() (transport.ts:107-109)
BulkUnsubscribe ==
    /\ bkPc \in {"exchange", "settled", "ended"}
    /\ ~bkUnsubscribed
    /\ bkUnsubscribed' = TRUE
    /\ UNCHANGED <<bkN, bkRaw, bkResponses, bkEvents, bkMain, bkPc, notBulk>>

\* Mutant of BulkExchangeResolves: unsubscribed is not looked at after the
\* await.
BulkExchangeResolves_NoCancelCheck(r) ==
    /\ bkPc = "exchange"
    /\ bkResponses' = Append(bkResponses, r)
    /\ IF Len(r) < 2
       THEN /\ bkMain' = [name |-> "RangeError"]
            /\ bkPc' = "settled"
            /\ UNCHANGED <<bkEvents, bkRaw>>
       ELSE IF ReadUInt16BE(r, Len(r) - 2) # StatusOK
       THEN /\ bkMain' = TransportStatusError(ReadUInt16BE(r, Len(r) - 2))
            /\ bkPc' = "settled"
            /\ UNCHANGED <<bkEvents, bkRaw>>
       ELSE /\ bkEvents' = Append(bkEvents, [type |-> "next", value |-> r])
            /\ IF Len(bkRaw) < bkN
               THEN /\ bkRaw' = Append(bkRaw, Len(bkRaw) + 1)
                    /\ bkPc' = "exchange"
                    /\ UNCHANGED bkMain
               ELSE /\ bkMain' = [name |-> "fulfilled"]
                    /\ bkPc' = "settled"
                    /\ UNCHANGED bkRaw
    /\ UNCHANGED <<bkN, bkUnsubscribed, notBulk>>

\* `await this.exchange(apdu)` resolved with r: main() from there to its next
\* await or to its end (transport.ts:114-122).
BulkExchangeResolves(r) ==
    /\ bkPc = "exchange"
    /\ bkResponses' = Append(bkResponses, r)
    /\ IF bkUnsubscribed
       THEN /\ bkMain' = [name |-> "fulfilled"]
            /\ bkPc' = "settled"
            /\ UNCHANGED <<bkEvents, bkRaw>>
       ELSE IF Len(r) < 2
       THEN /\ bkMain' = [name |-> "RangeError"]
            /\ bkPc' = "settled"
            /\ UNCHANGED <<bkEvents, bkRaw>>
       ELSE IF ReadUInt16BE(r, Len(r) - 2) # StatusOK
       THEN /\ bkMain' = TransportStatusError(ReadUInt16BE(r, Len(r) - 2))
            /\ bkPc' = "settled"
            /\ UNCHANGED <<bkEvents, bkRaw>>
       ELSE /\ bkEvents' = Append(bkEvents, [type |-> "next", value |-> r])
            /\ IF Len(bkRaw) < bkN
               THEN /\ bkRaw' = Append(bkRaw, Len(bkRaw) + 1)
                    /\ bkPc' = "exchange"
                    /\ UNCHANGED bkMain
               ELSE /\ bkMain' = [name |-> "fulfilled"]
                    /\ bkPc' = "settled"
                    /\ UNCHANGED bkRaw
    /\ UNCHANGED <<bkN, bkUnsubscribed, notBulk>>

\* `await this.exchange(apdu)` rejected: main() rejects with the same error.
BulkExchangeRejects ==
    /\ bkPc = "exchange"
    /\ bkMain' = [name |-> "ExchangeError"]
    /\ bkPc' = "settled"
    /\ UNCHANGED <<bkN, bkRaw, bkResponses, bkUnsubscribed, bkEvents, notBulk>>

\* Mutant of BulkSettle: complete is called after error as well.
BulkSettle_CompleteAfterError ==
    /\ bkPc = "settled"
    /\ bkEvents' =
          IF bkUnsubscribed THEN bkEvents
          ELSE IF bkMain.name = "fulfilled" THEN Append(bkEvents, [type |-> "complete"])
          ELSE bkEvents \o <<[type |-> "error", value |-> bkMain], [type |-> "complete"]>>
    /\ bkPc' = "ended"
    /\ UNCHANGED <<bkN, bkRaw, bkResponses, bkUnsubscribed, bkMain, notBulk>>

\* The callbacks of main().then(...) (transport.ts:124-127).
BulkSettle ==
    /\ bkPc = "settled"
    /\ bkEvents' =
          IF bkUnsubscribed THEN bkEvents
          ELSE IF bkMain.name = "fulfilled" THEN Append(bkEvents, [type |-> "complete"])
          ELSE Append(bkEvents, [type |-> "error", value |-> bkMain])
    /\ bkPc' = "ended"
    /\ UNCHANGED <<bkN, bkRaw, bkResponses, bkUnsubscribed, bkMain, notBulk>>

BulkNext ==
    \/ BulkCall
    \/ BulkUnsubscribe
    \/ \E r \in Responses : BulkExchangeResolves(r)
    \/ BulkExchangeRejects
    \/ BulkSettle

-----------------------------------------------------------------------------
(***************************************************************************)
(* Logs (src/src/logs.ts, the same code as src/unnamed/part_006): the      *)
(* array subscribers, listen, the unsubscribe function it returns, log and *)
(* dispatch.  A callback is identified by a number; each is registered at  *)
(* most once at a time.  What a callback does when it is called is its own *)
(* code: it returns, it throws, or it calls the unsubscribe function of a  *)
(* callback (its own or another one) and returns.                          *)
(***************************************************************************)

\* Bounds of the logs model.
NumSubscribers == 3
MaxLogs == 2

Subscribers == 1..NumSubscribers

Registered(subs) == {subs[k] : k \in 1..Len(subs)}

\* subscribers.indexOf(cb), 0-based, -1 when absent.
IndexOf(subs, cb) ==
    IF cb \in Registered(subs)
    THEN (CHOOSE k \in 1..Len(subs) :
              subs[k] = cb /\ \A j \in 1..(k - 1) : subs[j] # cb) - 1
    ELSE -1

\* The function listen returns (logs.ts:31-39): the array after the call.
Unsubscribe(subs, cb) ==
    LET i == IndexOf(subs, cb)
    IN  IF i # -1
        THEN \* subscribers[i] = subscribers[subscribers.length - 1]; subscribers.pop()
             SubSeq([subs EXCEPT ![i + 1] = subs[Len(subs)]], 1, Len(subs) - 1)
        ELSE subs

LogIdle ==
    /\ subscribers = <<>>
    /\ lgId = 0
    /\ lgI = 0
    /\ lgAtCall = {}
    /\ lgUnsubscribed = {}
    /\ lgReceived = [cb \in Subscribers |-> 0]
    /\ lgThrew = {}
    /\ lgPc = "idle"

\* listen(cb) (logs.ts:29-30), called outside a dispatch.
Listen(cb) ==
    /\ lgPc = "idle"
    /\ cb \notin Registered(subscribers)
    /\ subscribers' = Append(subscribers, cb)
    /\ UNCHANGED <<lgId, lgI, lgAtCall, lgUnsubscribed, lgReceived, lgThrew, lgPc, notLog>>

\* The unsubscribe function of cb called outside a dispatch (logs.ts:31-39).
UnsubscribeCall(cb) ==
    /\ lgPc = "idle"
    /\ cb \in Registered(subscribers)
    /\ subscribers' = Unsubscribe(subscribers, cb)
    /\ UNCHANGED <<lgId, lgI, lgAtCall, lgUnsubscribed, lgReceived, lgThrew, lgPc, notLog>>

\* log(type, message, data) up to the loop of dispatch (logs.ts:13-21, 42-43).
Log ==
    /\ lgPc = "idle"
    /\ lgId < MaxLogs
    /\ lgId' = lgId + 1
    /\ lgI' = 0
    /\ lgAtCall' = Registered(subscribers)
    /\ lgUnsubscribed' = {}
    /\ lgReceived' = [cb \in Subscribers |-> 0]
    /\ lgThrew' = {}
    /\ lgPc' = "dispatch"
    /\ UNCHANGED <<subscribers, notLog>>

\* One iteration of the loop of dispatch (logs.ts:43-49): subscribers[i] is
\* called with the log.  does is what the callback does: "return", "throw"
\* (caught, console.error) or "unsubscribe": it calls the unsubscribe function
\* of the callback `of` and returns.
DispatchCall(does, of) ==
    /\ lgPc = "dispatch"
    /\ lgI < Len(subscribers)
    /\ LET cb == subscribers[lgI + 1]
       IN  /\ lgReceived' = [lgReceived EXCEPT ![cb] = @ + 1]
           /\ lgThrew' = IF does = "throw" THEN lgThrew \cup {cb} ELSE lgThrew
           /\ IF does = "unsubscribe"
              THEN /\ subscribers' = Unsubscribe(subscribers, of)
                   /\ lgUnsubscribed' =
                          IF of \in Registered(subscribers)
                          THEN lgUnsubscribed \cup {of} ELSE lgUnsubscribed
              ELSE UNCHANGED <<subscribers, lgUnsubscribed>>
    /\ lgI' = lgI + 1
    /\ UNCHANGED <<lgId, lgAtCall, lgPc, notLog>>

\* The loop of dispatch ends (logs.ts:43) and log returns.
DispatchReturn ==
    /\ lgPc = "dispatch"
    /\ ~(lgI < Len(subscribers))
    /\ lgPc' = "idle"
    /\ UNCHANGED <<subscribers, lgId, lgI, lgAtCall, lgUnsubscribed, lgReceived, lgThrew,
                   notLog>>

LogNext ==
    \/ \E cb \in Subscribers : Listen(cb)
    \/ \E cb \in Subscribers : UnsubscribeCall(cb)
    \/ Log
    \/ \E does \in {"return", "throw", "unsubscribe"}, of \in Subscribers :
          DispatchCall(does, of)
    \/ DispatchReturn

-----------------------------------------------------------------------------
\* The specifications: each runs one component, the others stay idle.

Init == ChanInit /\ ChunkIdle /\ FrameIdle /\ StructIdle /\ SendIdle /\ RecoveryIdle /\ BulkIdle /\ LogIdle

Next == ChanNext

Spec == Init /\ [][Next]_vars

InitChunks == ChanInit /\ ChunkInit /\ FrameIdle /\ StructIdle /\ SendIdle /\ RecoveryIdle /\ BulkIdle /\ LogIdle

NextChunks == ChunkNext

SpecChunks == InitChunks /\ [][NextChunks]_vars

InitFailures ==
    /\ ChanInit /\ FrameIdle /\ SendIdle /\ RecoveryIdle /\ BulkIdle /\ LogIdle
    /\ \/ ChunkFailInit /\ StructIdle
       \/ ChunkIdle /\ StructInit

NextFailures == ChunkFailNext \/ StructFailNext

SpecFailures == InitFailures /\ [][NextFailures]_vars

InitSequence ==
    /\ ChanInit /\ FrameIdle /\ SendIdle /\ RecoveryIdle /\ BulkIdle /\ LogIdle
    /\ \/ ChunkFailInit /\ StructIdle
       \/ ChunkIdle /\ StructInit

NextSequence == ChunkAwaitNext \/ StructAwaitNext

SpecSequence == InitSequence /\ [][NextSequence]_vars

InitFraming == ChanInit /\ ChunkIdle /\ FrameInit /\ StructIdle /\ SendIdle /\ RecoveryIdle /\ BulkIdle /\ LogIdle

NextFraming == FrameNext

SpecFraming == InitFraming /\ [][NextFraming]_vars

InitReassembly == InitFraming

NextReassembly == FeedNext

SpecReassembly == InitReassembly /\ [][NextReassembly]_vars

InitField == ChanInit /\ ChunkIdle /\ FrameIdle /\ FieldInit /\ SendIdle /\ RecoveryIdle /\ BulkIdle /\ LogIdle

NextField == StructNext

SpecField == InitField /\ [][NextField]_vars

InitStruct == ChanInit /\ ChunkIdle /\ FrameIdle /\ StructInit /\ SendIdle /\ RecoveryIdle /\ BulkIdle /\ LogIdle

NextStruct == StructNext

SpecStruct == InitStruct /\ [][NextStruct]_vars

InitPartial ==
    ChanInit /\ ChunkIdle /\ FrameIdle /\ PartialInit /\ SendIdle /\ RecoveryIdle /\ BulkIdle /\ LogIdle

NextPartial == StructNext

SpecPartial == InitPartial /\ [][NextPartial]_vars

InitUnresolved ==
    ChanInit /\ ChunkIdle /\ FrameIdle /\ UnresolvedInit /\ SendIdle /\ RecoveryIdle /\ BulkIdle /\ LogIdle

NextUnresolved == StructNext

SpecUnresolved == InitUnresolved /\ [][NextUnresolved]_vars

InitSend == ChanInit /\ ChunkIdle /\ FrameIdle /\ StructIdle /\ SendInit /\ RecoveryIdle /\ BulkIdle /\ LogIdle

NextSend == SendNext

SpecSend == InitSend /\ [][NextSend]_vars

InitRecovery ==
    ChanInit /\ ChunkIdle /\ FrameIdle /\ StructIdle /\ SendIdle /\ RecoveryInit /\ BulkIdle /\ LogIdle

NextRecovery == RecoveryNext

SpecRecovery == InitRecovery /\ [][NextRecovery]_vars

InitBulk ==
    ChanInit /\ ChunkIdle /\ FrameIdle /\ StructIdle /\ SendIdle /\ RecoveryIdle /\ BulkInit /\ LogIdle

NextBulk == BulkNext

SpecBulk == InitBulk /\ [][NextBulk]_vars

InitLog ==
    ChanInit /\ ChunkIdle /\ FrameIdle /\ StructIdle /\ SendIdle /\ RecoveryIdle /\ BulkIdle /\ LogIdle

NextLog == LogNext

SpecLog == InitLog /\ [][NextLog]_vars

-----------------------------------------------------------------------------
\* C1: while a guarded operation is in flight, a further call to
\* exchangeAtomicImpl is rejected with TransportRaceCondition without running
\* its operation; at most one guarded operation is in flight at any time and
\* it is the one holding the busy flag.
C1_SingleFlight ==
    /\ Cardinality(InFlight) <= 1
    /\ \A o \in Ops :
        /\ opPc[o] = "inflight" => exchangeBusyPromise = o
        /\ outcome[o] = "race" =>
              /\ opPc[o] \in {"settled", "failed"}
              /\ rawStarted[o] = opSent[o]
              /\ exchangeBusyPromise # o
              /\ ~timerArmed[o]

C1_Witness ==
    \E o, p \in Ops :
        /\ opPc[o] = "inflight"
        /\ opPc[p] = "settled"
        /\ outcome[p] = "race"

\* C2 (as claimed): while an operation is between its first and its last
\* exchange, no exchange of another operation is performed on the transport.
MidSequence(o) ==
    /\ opPc[o] \in {"ready", "inflight", "settled"}
    /\ opSent[o] >= 1
    /\ opSent[o] < opChunks[o]

C2_NoInterleaving ==
    \A o, p \in Ops : (o # p /\ MidSequence(o)) => opPc[p] # "inflight"

\* C3: when the guarded operation has completed, by a result or by a throw,
\* the busy flag is cleared and the timer cancelled before the caller resumes;
\* with nothing in flight the flag is null, so the next call is admitted.
C3_ReleasedOnEveryExit ==
    /\ \A o \in Ops :
          opPc[o] # "inflight" => (exchangeBusyPromise # o /\ ~timerArmed[o])
    /\ InFlight = {} => exchangeBusyPromise = 0

C3_Witness ==
    \E o, p \in Ops :
        /\ o # p
        /\ opPc[o] = "settled"
        /\ outcome[o] = "throw"
        /\ opPc[p] = "inflight"
        /\ rawStarted[p] = 1

\* C15 (as claimed): for every guarded operation during which the timer fired
\* and "unresponsive" was emitted, "responsive" is emitted when the operation
\* completes, with a result or with an error.
C15_ResponsiveOnCompletion ==
    \A o \in Ops :
        (/\ opPc[o] # "inflight"
         /\ \E i \in 1..Len(emitted[o]) : emitted[o][i] = "unresponsive") =>
            emitted[o] = <<"unresponsive", "responsive">>

\* C29: the firing of the unresponsiveness timer emits "unresponsive" and
\* changes nothing else of the operation: it stays in flight, the busy flag
\* stays set, a new call of exchangeAtomicImpl made after it fails with
\* TransportRaceCondition, and f can still end in each of the ways it could
\* have ended before.
C29_TimerOnlyEmits ==
    /\ [][\A o \in Ops :
            (~unresponsiveReached[o] /\ unresponsiveReached'[o]) =>
                /\ emitted' = [emitted EXCEPT ![o] = Append(@, "unresponsive")]
                /\ opPc[o] = "inflight"
                /\ exchangeBusyPromise = o
                /\ UNCHANGED <<exchangeBusyPromise, opPc, opChunks, opSent, rawStarted,
                               outcome>>]_vars
    /\ [][\A o, p \in Ops :
            (/\ opPc[o] = "inflight" /\ unresponsiveReached[o]
             /\ opPc[p] = "ready" /\ opPc'[p] # "ready") =>
                (opPc'[p] = "settled" /\ outcome'[p] = "race")]_vars
    /\ [](\A o \in Ops :
            opPc[o] = "inflight" =>
                \A res \in {"ok", "status", "throw"} : ENABLED ExchangeAtomicSettle(o, res))

\* The timer fired during an exchange that then returned its response; a call
\* made by the other operation failed with TransportRaceCondition.
C29_Witness ==
    \E o, p \in Ops :
        /\ opPc[o] = "settled"
        /\ outcome[o] = "ok"
        /\ unresponsiveReached[o]
        /\ emitted[o] = <<"unresponsive", "responsive">>
        /\ outcome[p] = "race"

-----------------------------------------------------------------------------
\* Claims about Transport.send (SpecSend).

\* The status word of the response send received.
ResponseStatus ==
    snResponse[Len(snResponse) - 1] * 256 + snResponse[Len(snResponse)]

\* send has ended after its raw exchange resolved with a response that has a
\* trailing status word.
SendAnswered == snPc \in {"returned", "failed"} /\ Len(snResponse) >= 2

InStatusList == \E i \in DOMAIN snArgs.statusList : snArgs.statusList[i] = ResponseStatus

\* C12: send with a payload of 256 bytes or more fails with TransportError
\* (id DataLengthTooBig) and performs no raw exchange; with a payload of 0..255
\* bytes it performs exactly one raw exchange whose bytes are cla, ins, p1, p2,
\* the one-byte payload length, then the payload.
C12_SendLengthCheck ==
    snPc \notin {"idle", "call"} =>
        IF snArgs.len >= 256
        THEN /\ snPc = "failed"
             /\ snError = [name |-> "TransportError", id |-> "DataLengthTooBig"]
             /\ snRaw = <<>>
        ELSE /\ Len(snRaw) = 1
             /\ snRaw[1] = <<snArgs.cla, snArgs.ins, snArgs.p1, snArgs.p2, snArgs.len>>
                               \o Payload(snArgs.len)

C12_Witness ==
    /\ snPc = "returned"
    /\ snArgs.len = 255
    /\ Len(snRaw) = 1
    /\ Len(snRaw[1]) = 260

\* C13 (as claimed): send returns the raw response if and only if its trailing
\* status word is in the acceptable-status list; otherwise it fails with a
\* status error carrying that status word.
C13_StatusErrorCarriesWord ==
    SendAnswered =>
        IF InStatusList
        THEN snPc = "returned" /\ snResult = snResponse
        ELSE /\ snPc = "failed"
             /\ snError = [name |-> "TransportStatusError", statusCode |-> ResponseStatus]

\* C13 (amended): the same, except that for the status word 0x5515 outside the
\* list the error is LockedDeviceError, which has no status code.
C13_StatusErrorOrLocked ==
    SendAnswered =>
        IF InStatusList
        THEN snPc = "returned" /\ snResult = snResponse
        ELSE /\ snPc = "failed"
             /\ IF ResponseStatus = 21781
                THEN snError = [name |-> "LockedDeviceError"]
                ELSE snError = [name |-> "TransportStatusError",
                                statusCode |-> ResponseStatus]

C13_Witness ==
    /\ SendAnswered
    /\ snArgs.statusList = <<36864, 27013>>
    /\ ResponseStatus = 27264
    /\ snError = [name |-> "TransportStatusError", statusCode |-> 27264]

\* C14 (as claimed): whenever a response with status word 0x5515 is received
\* by send, with any acceptable-status list, the caller gets LockedDeviceError,
\* never a TransportStatusError and never a normal result.
C14_LockedAlwaysRaised ==
    (SendAnswered /\ ResponseStatus = 21781) =>
        (snPc = "failed" /\ snError.name = "LockedDeviceError")

-----------------------------------------------------------------------------
\* Claims about the signature recovery (SpecRecovery).

\* The number a string of hex digits denotes.
HexDigitValue(ch) == (CHOOSE d \in 1..16 : HexDigits[d] = ch) - 1

RECURSIVE HexValue(_)
HexValue(str) ==
    IF str = <<>> THEN 0
    ELSE HexValue(SubSeq(str, 1, Len(str) - 1)) * 16 + HexDigitValue(str[Len(str)])

\* 2c + 35 + 1 > 255
OversizedChainId == 2 * rvTx.chainId + 35 + 1 > 255

\* (2 * cTruncated + 35) mod 256
OneByteChainId == (2 * rvTx.chainIdTruncated + 35) % 256

\* C19 (as claimed): for a legacy transaction whose chain ID c has
\* 2c + 35 + 1 > 255, when the device returns the recovery byte
\* (2 * cTruncated + 35 + p) mod 256 with p in {0, 1}, the parity derived is p
\* and the returned v is the hex encoding of 2c + 35 + p, for every such c.
C19_LegacyOversizedV ==
    \A p \in {0, 1} :
        (/\ rvPc = "done"
         /\ rvTx.txType = "null"
         /\ OversizedChainId
         /\ rvResponseByte = (OneByteChainId + p) % 256) =>
            /\ rvParity = p
            /\ HexValue(rvV) = 2 * rvTx.chainId + 35 + p
            /\ Len(rvV) % 2 = 0

\* C20 (as claimed): for a typed transaction whose chain ID c has
\* 2c + 35 + 1 > 255, the returned v is "01" when
\* |recoveryByte - ((2 * cTruncated + 35) mod 256)| is odd and "00" when it is
\* even.
C20_TypedParityV ==
    (rvPc = "done" /\ rvTx.txType # "null" /\ OversizedChainId) =>
        rvV = (IF Abs(rvResponseByte - OneByteChainId) % 2 = 1
               THEN <<"0", "1">> ELSE <<"0", "0">>)

\* C21: the v returned always has an even number of hex digits, for every
\* chain ID, transaction type and recovery byte; when 2c + 35 + 1 <= 255 it is
\* the two-hex-digit encoding of the recovery byte, for legacy and typed
\* transactions alike.
C21_EvenLengthV ==
    rvPc = "done" =>
        /\ Len(rvV) % 2 = 0
        /\ \A i \in 1..Len(rvV) : \E d \in 1..16 : HexDigits[d] = rvV[i]
        /\ ~OversizedChainId =>
              (Len(rvV) = 2 /\ HexValue(rvV) = rvResponseByte)

\* A transaction with chain ID 1 answered with a recovery byte below 0x10:
\* the hex digit is padded.
C21_Witness ==
    /\ rvPc = "done"
    /\ rvTx.chainId = 1
    /\ rvTx.txType = "2"
    /\ rvResponseByte = 1
    /\ rvV = <<"0", "1">>

-----------------------------------------------------------------------------
\* Claims about Transport.exchangeBulk (SpecBulk).

\* The status word of the i-th response received.
BulkStatus(i) ==
    bkResponses[i][Len(bkResponses[i]) - 1] * 256 + bkResponses[i][Len(bkResponses[i])]

\* Every response received has a trailing status word.
BulkWellFormed == \A i \in 1..Len(bkResponses) : Len(bkResponses[i]) >= 2

\* The index of the first response whose status word is not 0x9000, 0 if none.
FirstNotOK ==
    LET bad == {i \in 1..Len(bkResponses) : BulkStatus(i) # 36864}
    IN  IF bad = {} THEN 0 ELSE CHOOSE i \in bad : \A j \in bad : i <= j

\* observer.next called once for each of the first k responses, in order.
NextCalls(k) == [i \in 1..k |-> [type |-> "next", value |-> bkResponses[i]]]

\* The error made from a status word.
StatusErrorOf(sw) ==
    IF sw = 21781 THEN [name |-> "LockedDeviceError"]
    ELSE [name |-> "TransportStatusError", statusCode |-> sw]

\* C22: exchangeBulk exchanges the APDUs one at a time in list order; at the
\* first response whose status word is not 0x9000 it starts no further
\* exchange, calls observer.error exactly once with that status error and
\* never complete, next having been called once, in order, for each earlier
\* response only; if every response is OK it calls next once per response in
\* order and then complete exactly once.
C22_BulkStopsAtFirstError ==
    /\ bkRaw = [i \in 1..Len(bkRaw) |-> i]
    /\ Len(bkRaw) <= bkN
    /\ Len(bkResponses) <= Len(bkRaw)
    /\ Len(bkRaw) <= Len(bkResponses) + 1
    /\ (~bkUnsubscribed /\ BulkWellFormed) =>
          IF FirstNotOK # 0
          THEN /\ Len(bkResponses) = FirstNotOK
               /\ Len(bkRaw) = FirstNotOK
               /\ bkPc \in {"settled", "ended"}
               /\ bkEvents =
                     IF bkPc = "ended"
                     THEN Append(NextCalls(FirstNotOK - 1),
                                 [type |-> "error",
                                  value |-> StatusErrorOf(BulkStatus(FirstNotOK))])
                     ELSE NextCalls(FirstNotOK - 1)
          ELSE /\ bkPc \in {"call", "exchange"} => bkEvents = NextCalls(Len(bkResponses))
               /\ (bkPc = "settled" /\ Len(bkResponses) = bkN) =>
                     bkEvents = NextCalls(bkN)
               /\ (bkPc = "ended" /\ Len(bkResponses) = bkN /\ Len(bkRaw) = bkN) =>
                     bkEvents = Append(NextCalls(bkN), [type |-> "complete"])

\* Two responses were OK, the third was not: two next, then error.
C22_Witness ==
    /\ bkPc = "ended"
    /\ ~bkUnsubscribed
    /\ bkN = 3
    /\ BulkWellFormed
    /\ FirstNotOK = 3
    /\ Len(bkEvents) = 3
    /\ bkEvents[3] = [type |-> "error",
                      value |-> [name |-> "TransportStatusError", statusCode |-> 27264]]

-----------------------------------------------------------------------------
\* Claims about the chunked command encoder (SpecChunks).

\* The payload bytes of exchange i: its buffer without the header that the
\* first exchange starts with.
PayloadPart(i) ==
    IF i = 1
    THEN SubSeq(chSent[1].buf, Len(Header(chKind, chPaths, chLen)) + 1, Len(chSent[1].buf))
    ELSE chSent[i].buf

\* The payload offset at which exchange i ends.
RECURSIVE EndOffset(_)
EndOffset(i) == IF i = 0 THEN 0 ELSE EndOffset(i - 1) + Len(PayloadPart(i))

C8_EmptyPayloadOneExchange ==
    (chLen = 0 /\ chPc \in {"done", "tooBig", "typeError"}) =>
        /\ Len(chSent) = 1
        /\ chSent[1].buf = Header(chKind, chPaths, chLen)

\* C9 (as claimed): in every chunked operation the first exchange has
\* p1 = 0x00 and every later exchange has p1 = 0x80.
C9_ContinuationFlag ==
    \A i \in 1..Len(chSent) :
        chSent[i].p1 = (IF i = 1 THEN 0 ELSE 128)

\* C10: in signEthTransaction with vrsOffset # 0, an exchange that ends at a
\* payload offset >= vrsOffset is the last one and ends at the end of the
\* payload; the bytes from vrsOffset on travel together in the final exchange.
C10_MarkerKeptWhole ==
    (chKind = "signEthTransaction" /\ chVrs # 0) =>
        /\ \A i \in 1..Len(chSent) :
              EndOffset(i) >= chVrs =>
                 (i = Len(chSent) /\ EndOffset(i) = chLen /\ chOffset = chLen)
        /\ chPc = "done" => EndOffset(Len(chSent) - 1) <= chVrs

C10_Witness ==
    /\ chKind = "signEthTransaction"
    /\ chPc = "done"
    /\ chVrs # 0
    /\ Len(chSent) = 2
    /\ Len(chSent[2].buf) > TxBudget
    /\ EndOffset(1) < chVrs

\* C11 (as claimed): every exchange issued by a chunked operation carries a
\* command payload shorter than 256 bytes, and no chunk is rejected by send as
\* too large: for sendChunks, signPSBT, load and signEthTransaction, for every
\* payload length, path count and vrsOffset in 0..length.
C11_ChunksBelow256 ==
    chKind \in {"sendChunks", "signPSBT", "load", "signEthTransaction"} =>
        /\ chPc # "tooBig"
        /\ \A i \in 1..Len(chSent) : Len(chSent[i].buf) < MaxDataLength

\* The per-exchange budget B and the first-exchange header size H of C17.
BudgetOf(kind) == IF kind = "signEthTransaction" THEN TxBudget ELSE MsgBudget
HeaderSize == Len(Header(chKind, chPaths, chLen))

\* C17: with payload length L >= 1, for signEthTransaction without replay
\* marker (B = 150, H = 1 + 4n), sendChunks (B = 255, H = 1 + 4n + 4) and
\* signPSBT (B = 255, H = 4), the number of exchanges is ceil((L + H) / B), the
\* first exchange carries B - H payload bytes (or all L if fewer) and every
\* non-final continuation carries exactly B bytes.
C17_ExchangeCount ==
    (/\ chPc = "done"
     /\ chLen >= 1
     /\ \/ chKind \in {"sendChunks", "signPSBT"}
        \/ (chKind = "signEthTransaction" /\ chVrs = 0)) =>
        /\ HeaderSize = (CASE chKind = "signEthTransaction" -> 1 + 4 * chPaths
                           [] chKind = "sendChunks" -> 1 + 4 * chPaths + 4
                           [] chKind = "signPSBT" -> 4)
        /\ Len(chSent) = CeilDiv(chLen + HeaderSize, BudgetOf(chKind))
        /\ Len(PayloadPart(1)) =
              (IF chLen < BudgetOf(chKind) - HeaderSize
               THEN chLen ELSE BudgetOf(chKind) - HeaderSize)
        /\ \A i \in 2..(Len(chSent) - 1) : Len(chSent[i].buf) = BudgetOf(chKind)

\* A 400-byte transaction with a 1-index path: 3 exchanges, 145 payload bytes
\* in the first.
C17_Witness ==
    /\ chPc = "done"
    /\ chKind = "signEthTransaction"
    /\ chVrs = 0
    /\ chLen = 400
    /\ chPaths = 1
    /\ Len(chSent) = 3
    /\ Len(PayloadPart(1)) = 145
    /\ Len(chSent[2].buf) = 150

\* C18 (as claimed): load has one per-exchange budget B in 240..244: the
\* 4-byte length header plus the payload of the first exchange never exceed B
\* bytes, every non-final continuation carries exactly B bytes, and a payload
\* of length L >= 1 takes ceil((L + 4) / B) exchanges.
C18_LoadBudget ==
    (chKind = "load" /\ chPc = "done" /\ chLen >= 1) =>
        \E B \in 240..244 :
            /\ Len(chSent[1].buf) <= B
            /\ \A i \in 2..(Len(chSent) - 1) : Len(chSent[i].buf) = B
            /\ Len(chSent) = CeilDiv(chLen + 4, B)

\* The error send threw in the exchange that failed.
IsIncorrectData(e) == e = [name |-> "TransportStatusError", statusCode |-> 27264]

C25_RemapInTransactionsOnly ==
    /\ chFailed # <<>> =>
          /\ (chKind = "signEthTransaction" /\ IsIncorrectData(chFailed[1].error)) =>
                 chError.name = "InvalidTxData"
          /\ (chKind = "signEthTransaction" /\ ~IsIncorrectData(chFailed[1].error)) =>
                 chError = chFailed[1].error
          /\ chKind # "signEthTransaction" => chError = chFailed[1].error
    /\ chPc = "tooBig" =>
          chError = [name |-> "TransportError", id |-> "DataLengthTooBig"]

C25_Witness ==
    /\ chPc = "failed"
    /\ chKind = "signEthTransaction"
    /\ IsIncorrectData(chFailed[1].error)
    /\ chError = [name |-> "InvalidTxData"]

\* The sum of a sequence of numbers.
RECURSIVE SumSeq(_)
SumSeq(s) == IF s = <<>> THEN 0 ELSE Head(s) + SumSeq(Tail(s))

\* C26: load has emitted one "chunk-loaded" event for each exchange answered
\* with an accepted status, in order, before the next exchange starts, with
\* the number of payload bytes of that exchange; when load completes the
\* counts sum to the payload length; a failed exchange has no event and none
\* follows it.
C26_ChunkLoadedEvents ==
    chKind = "load" =>
        /\ Len(chEmitted) = Len(chSent)
        /\ \A i \in 1..Len(chEmitted) : chEmitted[i] = Len(PayloadPart(i))
        /\ chPc = "done" => SumSeq(chEmitted) = chLen

\* A load of 500 bytes whose third exchange fails: two events, 240 each.
C26_Witness ==
    /\ chKind = "load"
    /\ chPc = "failed"
    /\ chLen = 500
    /\ chFailed[1].at = 3
    /\ chEmitted = <<240, 240>>

\* C28 (as claimed): personal-message signing (signEthPersonalMessage through
\* sendChunks, Eth.signPersonalMessage) and legacy EIP-712 signing never put
\* more than 150 bytes in one exchange: the first carries the header of
\* 1 + 4n + 4 bytes and at most 150 - 1 - 4n - 4 payload bytes, every
\* continuation at most 150 bytes.
C28_MessageBudget150 ==
    (chKind \in {"sendChunks", "signPersonalMessage", "signEIP712Message"}
        /\ chSent # <<>>) =>
        /\ Len(Header(chKind, chPaths, chLen)) = 1 + 4 * chPaths + 4
        /\ Len(PayloadPart(1)) <= 150 - 1 - 4 * chPaths - 4
        /\ \A i \in 1..Len(chSent) : Len(chSent[i].buf) <= 150

\* The payload bytes of the exchanges answered and of those outstanding, in
\* the order in which they were started.
StartedPayload ==
    LET started == [i \in 1..Len(chSent) |-> chSent[i].buf]
                   \o [i \in 1..Len(chPending) |-> chPending[i].buf]
        all == Flatten(started)
    IN  IF started = <<>> THEN <<>>
        ELSE SubSeq(all, Len(Header(chKind, chPaths, chLen)) + 1, Len(all))

\* C33: within one chunked operation or one traversal, an exchange is started
\* only when every earlier one has been answered and accepted, at most one
\* exchange of the operation is outstanding, and the exchanges are started
\* in increasing payload-offset (traversal) order.
C33_OneExchangeAtATime ==
    /\ [](/\ Len(chPending) <= 1
          /\ Len(sdPending) <= 1
          /\ chPc = "await" => Len(chPending) = 1
          /\ chKind # "none" =>
                StartedPayload = SubSeq(Payload(chLen), 1, Len(StartedPayload))
          /\ sdRoot = "Mail" =>
                sdSent \o [i \in 1..Len(sdFailed) |-> sdFailed[i].exchange]
                       \o sdPending \o sdPlan
                    = RecursiveFieldStructImplem(sdFilters, DestructTypeFromString(sdRoot),
                                                 sdMessage, <<>>))
    /\ [][/\ Len(chPending') > Len(chPending) =>
                (chPending = <<>> /\ chFailed = <<>> /\ chOffset = Len(StartedPayload))
          /\ Len(sdPending') > Len(sdPending) =>
                (sdPending = <<>> /\ sdFailed = <<>>)]_vars

\* Two exchanges of a transaction were answered, the third is outstanding.
C33_Witness ==
    /\ chPc = "await"
    /\ chKind = "signEthTransaction"
    /\ Len(chSent) = 2
    /\ Len(chPending) = 1
    /\ chOffset = Len(PayloadPart(1)) + Len(PayloadPart(2))

-----------------------------------------------------------------------------
\* Claims about the link framer (SpecFraming).

FrameEnded == frPc \notin {"idle", "reduce"}

\* C7 (as claimed): for every packet size >= 6, feeding the packets of
\* makeBlocks in order to reduceResponse and calling getReducedResult returns
\* the original payload.
C7_RoundTripFrom6 ==
    FrameEnded => (frPc = "result" /\ frResult = Apdu(frApduLen))

\* C7 (amended): the same for every packet size >= 7.
C7_RoundTripFrom7 ==
    (FrameEnded /\ frPacketSize >= 7) =>
        (frPc = "result" /\ frResult = Apdu(frApduLen))

C7_Witness ==
    /\ frPc = "result"
    /\ frPacketSize = 7
    /\ frApduLen > 255
    /\ frFed > 2
    /\ frResult = Apdu(frApduLen)

\* C31: for a payload of length len and packet size s >= 6, makeBlocks yields
\* ceil((len + 2) / (s - 5)) packets of exactly s bytes, each beginning with
\* the channel id and the tag 0x05, with the indices 0, 1, 2, ... in order;
\* their data bytes are the 2-byte length, the payload and then zeros.
C31_MakeBlocksShape ==
    frPc # "idle" =>
        LET n == Len(frBlocks)
            blockSize == frPacketSize - 5
        IN  /\ n = CeilDiv(frApduLen + 2, blockSize)
            /\ \A i \in 1..n :
                  /\ Len(frBlocks[i]) = frPacketSize
                  /\ frBlocks[i][1] * 256 + frBlocks[i][2] = frChannel
                  /\ frBlocks[i][3] = 5
                  /\ frBlocks[i][4] * 256 + frBlocks[i][5] = i - 1
            /\ \A k \in 1..(n * blockSize) :
                  frBlocks[((k - 1) \div blockSize) + 1][6 + ((k - 1) % blockSize)]
                      = (IF k = 1 THEN frApduLen \div 256
                         ELSE IF k = 2 THEN frApduLen % 256
                         ELSE IF k <= frApduLen + 2 THEN Apdu(frApduLen)[k - 2]
                         ELSE 0)

\* A 12-byte payload in packets of 9 bytes: 4 packets, 2 bytes of padding.
C31_Witness ==
    /\ frPc = "result"
    /\ frPacketSize = 9
    /\ frApduLen = 12
    /\ Len(frBlocks) = 4
    /\ SubSeq(frBlocks[4], 6, 9) = <<11, 12, 0, 0>>

\* C32: after any sequence of packets accepted by reduceResponse the data is
\* no longer than the declared length, the sequence counter is the number of
\* packets accepted, the declared length is the one read from the first
\* packet and does not change, and getReducedResult yields the data exactly
\* when its length is the declared length, and nothing before.
C32_AccumulatorInvariant ==
    /\ [](/\ frAcc = NullAcc => (frFed = 0 /\ GetReducedResult(frAcc) = Undefined)
          /\ frAcc # NullAcc =>
                /\ Len(frAcc.data) <= frAcc.dataLength
                /\ frAcc.sequence = frFed
                /\ frAcc.dataLength = frBlocks[1][6] * 256 + frBlocks[1][7]
                /\ Len(frAcc.data) = frAcc.dataLength => GetReducedResult(frAcc) = frAcc.data
                /\ Len(frAcc.data) < frAcc.dataLength => GetReducedResult(frAcc) = Undefined
          /\ frPc = "result" => frResult = GetReducedResult(frAcc))
    /\ [][(frAcc # NullAcc /\ frAcc' # NullAcc) => frAcc'.dataLength = frAcc.dataLength]_vars

\* Four packets of a 262-byte payload were accepted: 18 bytes so far, no
\* result yet.
C32_Witness ==
    /\ frPc = "reduce"
    /\ frApduLen = 262
    /\ frPacketSize = 10
    /\ frFed = 4
    /\ frAcc.sequence = 4
    /\ frAcc.dataLength = 262
    /\ Len(frAcc.data) = 18
    /\ GetReducedResult(frAcc) = Undefined

\* The fields of the packet last given to reduceResponse, and the index that
\* was expected of it: the number of packets accepted before it.
LastAccepted == frPc \in {"reduce", "result"}
ExpectedIndex == IF LastAccepted THEN frFed - 1 ELSE frFed
ChannelMatches == frLast[1] * 256 + frLast[2] = frChannel
TagMatches == frLast[3] = 5
IndexMatches == frLast[4] * 256 + frLast[5] = ExpectedIndex

\* C16: reduceResponse accepts a packet only if its channel is the framer's,
\* its tag is 0x05 and its index is the number of packets already accepted; a
\* packet with another channel fails with InvalidChannel, one with another tag
\* with InvalidTag, one whose index skips or repeats a value with
\* InvalidSequence (the checks are made in this order, the first mismatch is
\* the one reported).
C16_PacketValidation ==
    frLast # <<>> =>
        /\ LastAccepted => (ChannelMatches /\ TagMatches /\ IndexMatches)
        /\ ~ChannelMatches => frPc = "InvalidChannel"
        /\ (ChannelMatches /\ ~TagMatches) => frPc = "InvalidTag"
        /\ (ChannelMatches /\ TagMatches /\ ~IndexMatches) => frPc = "InvalidSequence"

C16_Witness ==
    /\ frPc = "InvalidSequence"
    /\ frFed = 2
    /\ frLast[4] * 256 + frLast[5] = 1
    /\ ChannelMatches
    /\ TagMatches

-----------------------------------------------------------------------------
\* Claims about the structured data (SpecField, SpecStruct).

Bufs(exchanges) == Flatten([i \in 1..Len(exchanges) |-> exchanges[i].buf])

\* C5 (as claimed): the payloads of the field exchanges of a leaf whose encoded
\* value has n bytes, concatenated in order, are [n div 256, n mod 256]
\* followed by the n encoded bytes.
C5_FieldBytesComplete ==
    sdPc = "done" =>
        Bufs(sdSent) = <<sdMessage.v \div 256, sdMessage.v % 256>> \o Encoded(sdMessage.v)

\* The fields of a composite value that its type declares, in the declaration
\* order of the type.
RECURSIVE FieldsInOrder_Declared(_, _)
FieldsInOrder_Declared(typeName, data) ==
    IF typeName \notin DOMAIN Types THEN <<>>
    ELSE LET decl == Types[typeName]
             present(i) == \E k \in 1..Len(ObjectEntries(data)) :
                               ObjectEntries(data)[k][1] = decl[i][1]
             valueOf(i) == ObjectEntries(data)[CHOOSE k \in 1..Len(ObjectEntries(data)) :
                               ObjectEntries(data)[k][1] = decl[i][1]][2]
             pick[i \in 0..Len(decl)] ==
                 IF i = 0 THEN <<>>
                 ELSE IF present(i)
                      THEN Append(pick[i - 1], <<decl[i][1], valueOf(i)>>)
                      ELSE pick[i - 1]
         IN  pick[Len(decl)]

\* The message with the keys of every composite value in declaration order.
RECURSIVE InDeclarationOrder(_, _)
InDeclarationOrder(destructedType, data) ==
    IF data.t = "arr" /\ destructedType.sizes # <<>>
    THEN [t |-> "arr",
          items |-> [i \in 1..Len(data.items) |->
                        InDeclarationOrder([name |-> destructedType.name,
                                            sizes |-> Tail(destructedType.sizes)],
                                           data.items[i])]]
    ELSE IF data.t = "obj" /\ destructedType.name \in DOMAIN Types
    THEN LET sorted == FieldsInOrder_Declared(destructedType.name, data)
         IN  [t |-> "obj",
              entries |-> [i \in 1..Len(sorted) |->
                  <<sorted[i][1],
                    InDeclarationOrder(
                        DestructTypeFromString(TypesMapLookup(destructedType.name, sorted[i][1])),
                        sorted[i][2])>>]]
    ELSE data

\* The value of a key of a composite value.
ValueOfKey(data, key) ==
    data.entries[CHOOSE i \in 1..Len(data.entries) : data.entries[i][1] = key][2]

\* The exchange belongs to the field `to` of the message or to a value below it.
UnderTo(exchange) == exchange.path # <<>> /\ exchange.path[1] = "to"

\* C34: for the array-typed field `to` (Person[]) holding k elements, the
\* traversal emits one array record carrying k and then the complete record
\* sequences of element 0, 1, ..., k-1 in that order, each traversed as a
\* Person with the path extended by .[]; an empty array emits only the array
\* record.
C34_ArrayRecordThenElements ==
    (sdPc = "done" /\ sdRoot = "Mail") =>
        LET items == ValueOfKey(sdMessage, "to").items
            k == Len(items)
        IN  SelectSeq(sdSent, UnderTo)
              = << [ins |-> 28, p1 |-> 0, p2 |-> 15, buf |-> <<k>>, path |-> <<"to">>] >>
                \o Flatten([i \in 1..k |->
                       RecursiveFieldStructImplem(sdFilters,
                                                  [name |-> "Person", sizes |-> <<>>],
                                                  items[i], <<"to", "[]">>)])

\* An array of two persons: its record and two records for each person.
C34_Witness ==
    /\ sdPc = "done"
    /\ sdRoot = "Mail"
    /\ Len(ValueOfKey(sdMessage, "to").items) = 2
    /\ Len(SelectSeq(sdSent, UnderTo)) = 5
    /\ SelectSeq(sdSent, UnderTo)[1].buf = <<2>>
    /\ SelectSeq(sdSent, UnderTo)[2].path = <<"to", "[]", "name">>

\* The kinds of record: the field record of a leaf, the show-field record.
IsFieldRecord(exchange) == exchange.ins = 28 /\ exchange.p2 = 255
IsShowField(exchange) == exchange.ins = 30 /\ exchange.p2 = 255

\* The registered filters whose path is the given one.
FiltersAt(path) == {j \in 1..Len(sdFilters) : sdFilters[j].path = path}

\* C35: for each primitive leaf (one field record each here), a show-field
\* record is sent if and only if a registered filter has the path of the leaf;
\* it is then one record, built from the first such filter's label and
\* signature, and the field record of the leaf follows it immediately.
C35_ShowFieldBeforeLeaf ==
    sdRoot = "Mail" =>
        \A i \in 1..Len(sdSent) :
            /\ IsFieldRecord(sdSent[i]) =>
                  IF FiltersAt(sdSent[i].path) = {}
                  THEN i = 1 \/ ~IsShowField(sdSent[i - 1])
                  ELSE LET first == CHOOSE j \in FiltersAt(sdSent[i].path) :
                                        \A h \in FiltersAt(sdSent[i].path) : j <= h
                       IN  /\ i > 1
                           /\ IsShowField(sdSent[i - 1])
                           /\ sdSent[i - 1].buf =
                                 <<Len(sdFilters[first].label)>> \o sdFilters[first].label
                                 \o <<Len(sdFilters[first].signature)>>
                                 \o sdFilters[first].signature
                           /\ i = 2 \/ ~IsShowField(sdSent[i - 2])
            /\ (IsShowField(sdSent[i]) /\ sdPc = "done") =>
                  /\ i < Len(sdSent)
                  /\ IsFieldRecord(sdSent[i + 1])
                  /\ sdSent[i + 1].path = sdSent[i].path

\* Two filters have the path of the names of the persons of `to`: both names
\* were sent, each behind the record of the first of the two filters.
C35_Witness ==
    /\ sdPc = "done"
    /\ Len(sdFilters) = 3
    /\ Len(ValueOfKey(sdMessage, "to").items) = 2
    /\ Len(SelectSeq(sdSent, IsShowField)) = 2
    /\ \E i \in 1..Len(sdSent) :
          /\ IsShowField(sdSent[i])
          /\ sdSent[i].buf = <<2, 78, 49, 2, 48, 3>>
          /\ sdSent[i + 1].path = <<"to", "[]", "name">>

\* The names of the fields a type declares.
DeclaredFields(typeName) == {Types[typeName][i][1] : i \in 1..Len(Types[typeName])}

\* The fields of the root value for which the traversal sent a record.
VisitedFields == {sdSent[i].path[1] : i \in 1..Len(sdSent)}

\* C36 (as claimed): for a composite value the traversal recurses into
\* exactly the fields its type declares, declared fields whose key is absent
\* from the input included, and into no key the type does not declare: the
\* records of the root value are those of its declared fields.
C36_DeclaredFieldsVisited ==
    (sdPc = "done" /\ sdRoot \in DOMAIN Types) =>
        VisitedFields = DeclaredFields(sdRoot)

\* The traversal of data as destructedType meets a value whose type name is
\* neither primitive nor declared.
RECURSIVE MeetsUnresolved(_, _)
MeetsUnresolved(destructedType, data) ==
    IF data.t = "arr" /\ destructedType.sizes # <<>>
    THEN \E i \in 1..Len(data.items) :
            MeetsUnresolved([name |-> destructedType.name,
                             sizes |-> Tail(destructedType.sizes)], data.items[i])
    ELSE IF ~IsCustomType(destructedType.name) THEN FALSE
    ELSE IF destructedType.name \notin DOMAIN Types THEN TRUE
    ELSE \E i \in 1..Len(ObjectEntries(data)) :
            LET fieldType == TypesMapLookup(destructedType.name, ObjectEntries(data)[i][1])
            IN  /\ fieldType # "undefined"
                /\ MeetsUnresolved(DestructTypeFromString(fieldType),
                                   ObjectEntries(data)[i][2])

\* C27 (as claimed): a traversal that meets a value whose type name is neither
\* primitive nor a key of the type map fails with an error; it does not
\* return having emitted nothing for that value.
C27_UnresolvedTypeFails ==
    (sdRoot \in DOMAIN Types /\ MeetsUnresolved(DestructTypeFromString(sdRoot), sdMessage)) =>
        sdPc # "done"

\* C6 (as claimed): the traversal emits the records of a composite value in
\* the declaration order of its fields, whatever the key order of the input:
\* the message and the same message with its keys in declaration order give
\* the same sequence of exchanges.
C6_DeclarationOrder ==
    sdPc = "done" =>
        sdSent = RecursiveFieldStructImplem(
                     sdFilters, DestructTypeFromString("Mail"),
                     InDeclarationOrder(DestructTypeFromString("Mail"), sdMessage), <<>>)

\* C37: every field exchange sent for a leaf carries between 1 and 255 bytes;
\* every exchange but the last is flagged partial (p1 = 0x01) and the last is
\* flagged complete (p1 = 0x00); a leaf whose length-prefixed data fits in
\* 255 bytes is sent as one complete exchange.
C37_FieldExchangeFlags ==
    /\ \A i \in 1..Len(sdSent) :
          /\ Len(sdSent[i].buf) \in 1..255
          /\ sdSent[i].ins = 28
          /\ sdSent[i].p2 = 255
    /\ sdPc = "done" =>
          /\ Len(sdSent) >= 1
          /\ \A i \in 1..(Len(sdSent) - 1) : sdSent[i].p1 = 1
          /\ sdSent[Len(sdSent)].p1 = 0
          /\ (sdMessage.v + 2 <= 255) => Len(sdSent) = 1

\* Reached: a leaf of 511 encoded bytes (513 with its length prefix) has been
\* sent in three exchanges.
C37_Witness ==
    /\ sdPc = "done"
    /\ sdRoot = "field"
    /\ sdMessage.v = 511
    /\ Len(sdSent) = 3

\* C38: a call of exchangeAtomicImpl that is rejected with
\* TransportRaceCondition changes nothing: the busy flag stays set for the
\* operation in flight, the timer of that operation stays as it was, no event
\* is emitted and no raw exchange is started; when the operation in flight
\* completes afterwards, the busy flag is cleared.
C38_RejectedCallChangesNothing ==
    /\ [][\A o \in Ops :
            (opPc[o] = "ready" /\ opPc'[o] = "settled" /\ outcome'[o] = "race") =>
                /\ exchangeBusyPromise \in Ops \ {o}
                /\ opPc[exchangeBusyPromise] = "inflight"
                /\ UNCHANGED <<exchangeBusyPromise, timerArmed, unresponsiveReached,
                               emitted, rawStarted, opSent, opChunks>>
                /\ \A p \in Ops \ {o} : opPc'[p] = opPc[p] /\ outcome'[p] = outcome[p]]_vars
    /\ [][\A o, p \in Ops :
            (outcome[o] = "race" /\ opPc[p] = "inflight" /\ opPc'[p] # "inflight") =>
                (exchangeBusyPromise' = 0 /\ ~timerArmed'[p])]_vars

\* Reached: a call was rejected while another operation was in flight, and
\* that operation has since completed with its response and released the flag.
C38_Witness ==
    \E o, p \in Ops :
        /\ outcome[o] = "race"
        /\ opPc[p] = "settled"
        /\ outcome[p] = "ok"
        /\ rawStarted[p] = 1
        /\ exchangeBusyPromise = 0

\* C39: during one guarded operation "unresponsive" is emitted at most once
\* and only while the operation is in flight; "responsive" is emitted at most
\* once and only after "unresponsive" of the same operation; the timer of an
\* operation that has completed emits nothing.
OperationEvents == {<<>>, <<"unresponsive">>, <<"unresponsive", "responsive">>}

C39_EventsPerOperation ==
    /\ [](\A o \in Ops : emitted[o] \in OperationEvents)
    /\ [][\A o \in Ops :
            emitted'[o] # emitted[o] =>
                \/ /\ opPc[o] = "ready" /\ opPc'[o] = "inflight"
                   /\ emitted'[o] = <<>>
                \/ /\ opPc[o] = "inflight" /\ opPc'[o] = "inflight"
                   /\ emitted[o] = <<>>
                   /\ emitted'[o] = <<"unresponsive">>
                \/ /\ opPc[o] = "inflight" /\ opPc'[o] = "settled"
                   /\ emitted[o] = <<"unresponsive">>
                   /\ emitted'[o] = <<"unresponsive", "responsive">>]_vars
    /\ [](\A o \in Ops : opPc[o] # "inflight" => ~ENABLED UnresponsiveTimeout(o))

\* Reached: one operation completed after both events, the other completed by
\* a throw after "unresponsive" alone.
C39_Witness ==
    \E o, p \in Ops :
        /\ opPc[o] = "settled"
        /\ emitted[o] = <<"unresponsive", "responsive">>
        /\ opPc[p] = "failed"
        /\ outcome[p] = "throw"
        /\ emitted[p] = <<"unresponsive">>

\* C40 (as claimed): when log() has returned, every callback that was
\* registered when it was called and was not unsubscribed during the dispatch
\* has been called with the log exactly once, also when a callback called an
\* unsubscribe function or threw during the dispatch.
C40_EverySubscriberOnce ==
    (lgPc = "idle" /\ lgId > 0) =>
        \A cb \in lgAtCall \ lgUnsubscribed : lgReceived[cb] = 1

=============================================================================
